---- MODULE Spec2Model ----
(***************************************************************************)
(* State-machine model of the DASK expression evaluator:                   *)
(*   structures/HashTable.py        the open-addressed variable store      *)
(*   structures/DASK_ParseTree.py   tokenizer, validator, parser, evaluator*)
(*   src/expression_optimizer.py    the tree-rewrite optimizer             *)
(*   src/dependency_analyzer.py     dependency graphs and cycle detection  *)
(*   main.py                        define / batch pass / delete           *)
(*                                                                         *)
(* Conventions.  A Python str is a sequence of one-character strings, so   *)
(* that a token can be taken apart (ord, isalpha, isdigit).  Python's None *)
(* is the empty tuple where the other values are tuples: an optional value *)
(* is <<>> or <<v>>.  A float is an exact rational <<n, d>> with d > 0 in  *)
(* lowest terms; the inputs are kept to values where float arithmetic is   *)
(* exact.                                                                  *)
(***************************************************************************)
EXTENDS Integers, Sequences, FiniteSets, TLC

VARIABLES
  hash_table,   \* HashTable: [keys, buckets], slot i of Python is i+1 here
  shadow,       \* history: the map the store is meant to hold
  ht_ops,       \* history: number of store operations done
  exp,          \* the raw expression text given to the validator
  tokens,       \* parser.tokenizer(exp)
  verdict,      \* parser.verify_expression(exp): None until it ran
  tree,         \* parser.buildParseTree(tokens): None until it ran
  ppc,          \* position in the tokenize / verify / build pipeline
  in_tree,      \* the tree given to evaluate and to optimize
  ev,           \* parser.evaluate(in_tree, hash_table): None until it ran
  opt1,         \* optimizer.optimize(in_tree): None until it ran
  opt2,         \* optimizer.optimize of the tree of opt1: None until it ran
  topological_graph,   \* main.py: the nx.DiGraph, [nodes, edges]
  mode,                \* main loop: "off", "menu", "visualizer", "crashed"
  pending_keys,        \* choice 7: the keys entered in the visualizer
  last_pass,           \* history: what the last show_dask_expressions did
  last_op,             \* history: choice 3 or 4 if it was the last operation
  prog_ops,            \* history: number of menu operations done
  forward_graph,       \* analyzer: [order, adj], a dict in insertion order
  reverse_graph,       \* analyzer: the transpose, a function on the nodes
  defined_variables,   \* analyzer: the set _defined_variables
  state,               \* detect_cycles: colour of each node
  frames,              \* detect_cycles: the call stack of dfs
  root_idx,            \* detect_cycles: position of the loop over the nodes
  cycles,              \* analyzer: _cycles, None until detect_cycles runs
  vars_in_cycles,      \* analyzer: _vars_in_cycles
  undefined_vars,      \* analyzer: _undefined_vars, None until asked for
  queried,             \* the argument of the query in progress
  queue,               \* get_all_dependencies / get_all_dependents: queue
  visited,             \* get_all_dependencies / get_all_dependents: visited
  levels,              \* get_all_dependents: levels
  apc                  \* analyzer: position of the caller

parseVars == <<exp, tokens, verdict, tree, ppc>>
htVars == <<hash_table, shadow, ht_ops>>
exprVars == <<in_tree, ev, opt1, opt2>>
progVars == <<topological_graph, mode, pending_keys, last_pass, last_op,
              prog_ops>>
queryVars == <<undefined_vars, queried, queue, visited, levels>>
anVars == <<forward_graph, reverse_graph, defined_variables, state, frames,
            root_idx, cycles, vars_in_cycles, apc, queryVars>>
vars == <<htVars, parseVars, exprVars, progVars, anVars>>

\* the variables a part of the program leaves alone
notParse == <<htVars, exprVars, progVars, anVars>>
notHt == <<parseVars, exprVars, progVars, anVars>>
notExpr == <<parseVars, shadow, ht_ops, progVars, anVars>>
notProg == <<parseVars, exprVars, shadow, ht_ops, anVars>>
notAn == <<parseVars, exprVars, htVars, progVars>>

(***************************************************************************)
(* Characters                                                              *)
(***************************************************************************)
Letters == <<"a","b","c","d","e","f","g","h","i","j","k","l","m",
             "n","o","p","q","r","s","t","u","v","w","x","y","z">>
UpperLetters == <<"A","B","C","D","E","F","G","H","I","J","K","L","M",
                  "N","O","P","Q","R","S","T","U","V","W","X","Y","Z">>
Digits == <<"0","1","2","3","4","5","6","7","8","9">>

IndexOf(seq, c) == CHOOSE i \in 1..Len(seq) : seq[i] = c
InSeq(seq, c) == \E i \in 1..Len(seq) : seq[i] = c

IsAlphaChar(c) == InSeq(Letters, c) \/ InSeq(UpperLetters, c)
IsDigitChar(c) == InSeq(Digits, c)

\* ord() of the characters the model uses
Ord(c) ==
  IF InSeq(Letters, c) THEN 96 + IndexOf(Letters, c)
  ELSE IF InSeq(UpperLetters, c) THEN 64 + IndexOf(UpperLetters, c)
  ELSE IF InSeq(Digits, c) THEN 47 + IndexOf(Digits, c)
  ELSE CASE c = " " -> 32 [] c = "(" -> 40 [] c = ")" -> 41 [] c = "*" -> 42
         [] c = "+" -> 43 [] c = "-" -> 45 [] c = "." -> 46 [] c = "/" -> 47
         [] c = "=" -> 61 [] c = "?" -> 63

\* str.isalpha(), str.isdigit(): false on the empty string
IsAlpha(s) == Len(s) > 0 /\ \A i \in 1..Len(s) : IsAlphaChar(s[i])
IsDigit(s) == Len(s) > 0 /\ \A i \in 1..Len(s) : IsDigitChar(s[i])

(***************************************************************************)
(* structures/HashTable.py                                                 *)
(***************************************************************************)
None == <<>>
Some(v) == <<v>>

\* the variables of a part that is not running
ParseIdle ==
  exp = <<>> /\ tokens = <<>> /\ verdict = None /\ tree = None /\ ppc = "idle"
HtIdle == hash_table = None /\ shadow = None /\ ht_ops = 0
ExprIdle == in_tree = None /\ ev = None /\ opt1 = None /\ opt2 = None
ProgIdle ==
  /\ topological_graph = None /\ mode = "off" /\ pending_keys = <<>>
  /\ last_pass = None /\ last_op = <<>> /\ prog_ops = 0
AnIdle ==
  /\ forward_graph = None /\ reverse_graph = None /\ defined_variables = {}
  /\ state = None /\ frames = <<>> /\ root_idx = 0 /\ cycles = None
  /\ vars_in_cycles = None /\ apc = "off"
  /\ undefined_vars = <<>> /\ queried = <<>> /\ queue = <<>>
  /\ visited = {} /\ levels = <<>>
NoneKey == <<"None">>      \* an empty slot of keys
DELETE == <<"DELETE">>     \* the tombstone object

TableSize == 100

RECURSIVE SumOrd(_)
SumOrd(key) == IF key = <<>> THEN 0 ELSE Ord(Head(key)) + SumOrd(Tail(key))

\* hashKey of a str key
hashKey(key, size) == SumOrd(key) % size
\* hashKey of an int key (the probe step hashKey(index + 1))
hashInt(n, size) == n % size

HashTableNew(size) ==
  [size |-> size,
   keys |-> [i \in 1..size |-> NoneKey],
   buckets |-> [i \in 1..size |-> None]]

items(ht) ==
  { <<i, ht.keys[i], ht.buckets[i]>> : i \in
      { j \in 1..ht.size : ht.keys[j] # NoneKey /\ ht.keys[j] # DELETE } }

RECURSIVE SetProbe(_, _, _, _, _)
SetProbe(ht, key, value, index, start) ==
  IF ht.keys[index + 1] = NoneKey \/ ht.keys[index + 1] = DELETE
  THEN [ht EXCEPT !.keys[index + 1] = key, !.buckets[index + 1] = value]
  ELSE IF ht.keys[index + 1] = key
  THEN [ht EXCEPT !.buckets[index + 1] = value]
  ELSE LET next == hashInt(index + 1, ht.size)
       IN IF next = start THEN ht ELSE SetProbe(ht, key, value, next, start)

setitem(ht, key, value) ==
  SetProbe(ht, key, value, hashKey(key, ht.size), hashKey(key, ht.size))

RECURSIVE GetProbe(_, _, _, _)
GetProbe(ht, key, index, start) ==
  IF ht.keys[index + 1] = NoneKey THEN None
  ELSE IF ht.keys[index + 1] = key THEN ht.buckets[index + 1]
  ELSE LET next == hashInt(index + 1, ht.size)
       IN IF next = start THEN None ELSE GetProbe(ht, key, next, start)

getitem(ht, key) ==
  GetProbe(ht, key, hashKey(key, ht.size), hashKey(key, ht.size))

RECURSIVE DelProbe(_, _, _, _)
DelProbe(ht, key, index, start) ==
  IF ht.keys[index + 1] = key
  THEN [ht EXCEPT !.keys[index + 1] = DELETE, !.buckets[index + 1] = None]
  ELSE LET next == hashInt(index + 1, ht.size)
       IN IF next = start THEN ht ELSE DelProbe(ht, key, next, start)

delitem(ht, key) ==
  DelProbe(ht, key, hashKey(key, ht.size), hashKey(key, ht.size))

(***************************************************************************)
(* structures/Stack.py is not among the sources: a plain LIFO stack.       *)
(***************************************************************************)
StackNew == <<>>
StackPush(st, x) == Append(st, x)
StackIsEmpty(st) == Len(st) = 0
StackSize(st) == Len(st)
StackTop(st) == st[Len(st)]
StackRest(st) == SubSeq(st, 1, Len(st) - 1)

(***************************************************************************)
(* structures/DASK_ParseTree.py: tokenizer and verify_expression           *)
(***************************************************************************)
operations == << <<"+">>, <<"-">>, <<"/">>, <<"*">>, <<"*","*">>,
                 <<"+","+">>, <<"/","/">> >>
InOperations(t) == \E i \in 1..Len(operations) : operations[i] = t

LP == <<"(">>
RP == <<")">>
EXP == <<"E","X","P">>     \* the validator's marker of a resolved group
Placeholder == <<"?">>     \* the key of a node not yet filled in

HasDot(s) == \E i \in 1..Len(s) : s[i] = "."

\* every character a token of its own, none skipped
TokenizeCharAlone(toks, i) == Append(toks, <<i>>)

\* tokens after reading one more character i
TokenizeChar(toks, i) ==
  LET n == Len(toks)
      extend == [toks EXCEPT ![n] = Append(toks[n], i)]
      fresh == Append(toks, <<i>>)
  IN IF i = "(" \/ i = ")" THEN fresh
     ELSE IF InOperations(<<i>>)
       THEN IF n > 0 /\ InOperations(toks[n]) THEN extend ELSE fresh
     ELSE IF IsDigitChar(i) \/ i = "."
       THEN IF n > 0 /\ (IsDigit(toks[n]) \/ HasDot(toks[n]))
            THEN extend ELSE fresh
     ELSE IF IsAlphaChar(i)
       THEN IF n > 0 /\ IsAlpha(toks[n]) THEN extend ELSE fresh
     ELSE toks

RECURSIVE TokenizeFrom(_, _, _)
TokenizeFrom(s, k, toks) ==
  IF k > Len(s) THEN toks
  ELSE TokenizeFrom(s, k + 1, TokenizeChar(toks, s[k]))

tokenizer(s) == TokenizeFrom(s, 1, <<>>)

\* s.replace('.', '', 1)
RemoveFirstDot(s) ==
  IF HasDot(s)
  THEN LET k == CHOOSE i \in 1..Len(s) :
                  s[i] = "." /\ \A j \in 1..(i - 1) : s[j] # "."
       IN SubSeq(s, 1, k - 1) \o SubSeq(s, k + 1, Len(s))
  ELSE s

\* the operand test of verify_expression
IsOperandToken(t) == IsAlpha(t) \/ IsDigit(RemoveFirstDot(t))

\* a group between "(" and ")" is a single operand, or operand op operand
GroupOk(g) ==
  \/ Len(g) = 1 /\ IsOperandToken(g[1])
  \/ /\ Len(g) = 3
     /\ InOperations(g[2])
     /\ IsOperandToken(g[1])
     /\ IsOperandToken(g[3])

RECURSIVE VerifyFrom(_, _, _)
VerifyFrom(toks, k, st) ==
  IF k > Len(toks)
  THEN StackSize(st) = 1 /\ StackTop(st) = EXP
  ELSE IF toks[k] = RP
  THEN IF StackIsEmpty(st) THEN FALSE
       ELSE IF \A j \in 1..Len(st) : st[j] # LP THEN FALSE
       ELSE LET open == CHOOSE j \in 1..Len(st) :
                          st[j] = LP /\ \A m \in (j + 1)..Len(st) : st[m] # LP
                group == SubSeq(st, open + 1, Len(st))
                rest == SubSeq(st, 1, open - 1)
            IN IF GroupOk(group)
               THEN VerifyFrom(toks, k + 1, StackPush(rest, EXP))
               ELSE FALSE
  ELSE VerifyFrom(toks, k + 1, StackPush(st, toks[k]))

verify_expression(s) == VerifyFrom(tokenizer(s), 1, StackNew)

(***************************************************************************)
(* structures/BinaryTree.py and buildParseTree.  A tree is <<>> (None) or  *)
(* <<key, left_tree, right_tree>>; a node is named by its path from the    *)
(* root, a sequence over {2, 3} (2: left_tree, 3: right_tree).             *)
(***************************************************************************)
BinaryTree(key) == <<key, None, None>>
getKey(t) == t[1]
getLeftTree(t) == t[2]
getRightTree(t) == t[3]

RECURSIVE NodeAt(_, _)
NodeAt(t, path) ==
  IF path = <<>> THEN t ELSE NodeAt(t[Head(path)], Tail(path))

RECURSIVE SetKeyAt(_, _, _)
SetKeyAt(t, path, key) ==
  IF path = <<>> THEN <<key, t[2], t[3]>>
  ELSE [t EXCEPT ![Head(path)] = SetKeyAt(t[Head(path)], Tail(path), key)]

\* insertLeft / insertRight go down while the side is taken; the result is
\* the tree and the path of the node that was attached
RECURSIVE InsertPath(_, _, _)
InsertPath(t, path, side) ==
  IF NodeAt(t, path)[side] = None THEN Append(path, side)
  ELSE InsertPath(t, Append(path, side), side)

RECURSIVE AttachAt(_, _)
AttachAt(t, path) ==
  IF Len(path) = 1 THEN [t EXCEPT ![path[1]] = BinaryTree(Placeholder)]
  ELSE [t EXCEPT ![Head(path)] = AttachAt(t[Head(path)], Tail(path))]

\* a build step whose operator opens the left side again
BuildStepLeftOnly(b, t) ==
  IF b.failed THEN b
  ELSE IF t = LP
  THEN LET np == InsertPath(b.tree, b.current, 2)
       IN [b EXCEPT !.tree = AttachAt(b.tree, np),
                    !.stack = StackPush(b.stack, b.current),
                    !.current = np]
  ELSE IF InOperations(t)
  THEN LET keyed == SetKeyAt(b.tree, b.current, t)
           np == InsertPath(keyed, b.current, 2)
       IN [b EXCEPT !.tree = AttachAt(keyed, np),
                    !.stack = StackPush(b.stack, b.current),
                    !.current = np]
  ELSE IF t = RP
  THEN IF StackIsEmpty(b.stack) THEN [b EXCEPT !.failed = TRUE]
       ELSE [b EXCEPT !.current = StackTop(b.stack),
                      !.stack = StackRest(b.stack)]
  ELSE IF StackIsEmpty(b.stack) THEN [b EXCEPT !.failed = TRUE]
       ELSE [b EXCEPT !.tree = SetKeyAt(b.tree, b.current, t),
                      !.current = StackTop(b.stack),
                      !.stack = StackRest(b.stack)]

\* one token of the loop of buildParseTree; popping an empty stack ends
\* the build with failed set
BuildStep(b, t) ==
  IF b.failed THEN b
  ELSE IF t = LP
  THEN LET np == InsertPath(b.tree, b.current, 2)
       IN [b EXCEPT !.tree = AttachAt(b.tree, np),
                    !.stack = StackPush(b.stack, b.current),
                    !.current = np]
  ELSE IF InOperations(t)
  THEN LET keyed == SetKeyAt(b.tree, b.current, t)
           np == InsertPath(keyed, b.current, 3)
       IN [b EXCEPT !.tree = AttachAt(keyed, np),
                    !.stack = StackPush(b.stack, b.current),
                    !.current = np]
  ELSE IF t = RP
  THEN IF StackIsEmpty(b.stack) THEN [b EXCEPT !.failed = TRUE]
       ELSE [b EXCEPT !.current = StackTop(b.stack),
                      !.stack = StackRest(b.stack)]
  ELSE IF StackIsEmpty(b.stack) THEN [b EXCEPT !.failed = TRUE]
       ELSE [b EXCEPT !.tree = SetKeyAt(b.tree, b.current, t),
                      !.current = StackTop(b.stack),
                      !.stack = StackRest(b.stack)]

RECURSIVE BuildFrom(_, _, _)
BuildFrom(toks, k, b) ==
  IF k > Len(toks) THEN b ELSE BuildFrom(toks, k + 1, BuildStep(b, toks[k]))

BuildFailed == <<Placeholder, <<Placeholder>>, <<Placeholder>>>>

buildParseTree(toks) ==
  IF Len(toks) = 3 THEN BinaryTree(toks[2])
  ELSE LET b == BuildFrom(toks, 1,
                  [tree |-> BinaryTree(Placeholder),
                   stack |-> StackPush(StackNew, <<>>),
                   current |-> <<>>,
                   failed |-> FALSE])
       IN IF b.failed THEN BuildFailed ELSE b.tree

(***************************************************************************)
(* Numbers.  A float is <<n, d>>, d > 0, in lowest terms.  Only dyadic     *)
(* rationals of small size are exact as floats; every other result is      *)
(* NotExact, and inputs that produce it are left out of the model.         *)
(* ComplexVal is a complex number (Python's result of a negative float to  *)
(* a fractional power), its value not tracked.                             *)
(***************************************************************************)
NotExact == <<0, 0>>
ComplexVal == <<1, 0>>
MaxMagnitude == 1000000
MaxExponent == 20

IsReal(v) == Len(v) = 2 /\ v[2] > 0

Abs(n) == IF n < 0 THEN -n ELSE n

RECURSIVE Gcd(_, _)
Gcd(a, b) == IF b = 0 THEN a ELSE Gcd(b, a % b)

RECURSIVE IsPowerOfTwo(_)
IsPowerOfTwo(n) ==
  IF n = 1 THEN TRUE ELSE IF n < 1 \/ n % 2 # 0 THEN FALSE
  ELSE IsPowerOfTwo(n \div 2)

\* n / d as a float
Rat(n, d) ==
  LET g == Gcd(Abs(n), Abs(d))
      sn == IF d < 0 THEN -n ELSE n
      rn == sn \div g
      rd == Abs(d) \div g
  IN IF ~IsPowerOfTwo(rd) \/ Abs(rn) > MaxMagnitude \/ rd > MaxMagnitude
     THEN NotExact ELSE <<rn, rd>>

Zero == <<0, 1>>
One == <<1, 1>>
IsWhole(v) == v[2] = 1

FAdd(a, b) == Rat(a[1] * b[2] + b[1] * a[2], a[2] * b[2])
FSub(a, b) == Rat(a[1] * b[2] - b[1] * a[2], a[2] * b[2])
FMul(a, b) == Rat(a[1] * b[1], a[2] * b[2])
\* b is not zero
FDiv(a, b) == Rat(a[1] * b[2], a[2] * b[1])
\* math.floor
Floor(a) == a[1] \div a[2]

\* b ^ e for e >= 0, saturating above MaxMagnitude
RECURSIVE IntPow(_, _)
IntPow(b, e) ==
  IF e = 0 THEN 1
  ELSE LET r == IntPow(b, e - 1)
       IN IF Abs(r) > MaxMagnitude THEN r ELSE r * b

\* the outcome of a Python expression: a value, or an exception
Ret(v) == [exc |-> "", val |-> v]
Raise(e) == [exc |-> e, val |-> None]

\* float ** float; a result of 2 ** 1024 or more is beyond the floats and
\* raises OverflowError
FPow(a, b) ==
  IF IsWhole(b) /\ b[1] >= 1024 /\ Abs(a[1]) >= 2 * a[2]
  THEN Raise("OverflowError")
  ELSE IF Abs(b[1]) > MaxExponent THEN Ret(NotExact)
  ELSE IF IsWhole(b)
  THEN IF b[1] >= 0
       THEN Ret(Rat(IntPow(a[1], b[1]), IntPow(a[2], b[1])))
       ELSE IF a = Zero THEN Raise("ZeroDivisionError")
            ELSE Ret(Rat(IntPow(a[2], -b[1]), IntPow(a[1], -b[1])))
  ELSE IF a[1] < 0 THEN Ret(ComplexVal)
  ELSE IF a = Zero
       THEN IF b[1] > 0 THEN Ret(Zero) ELSE Raise("ZeroDivisionError")
  ELSE IF a = One THEN Ret(One)
  ELSE Ret(NotExact)

\* the digits of a decimal numeral, and back
RECURSIVE DigitsToInt(_)
DigitsToInt(s) ==
  IF s = <<>> THEN 0
  ELSE DigitsToInt(SubSeq(s, 1, Len(s) - 1)) * 10
         + (IndexOf(Digits, s[Len(s)]) - 1)

RECURSIVE IntToDigits(_)
IntToDigits(n) ==
  IF n < 10 THEN <<Digits[n + 1]>>
  ELSE Append(IntToDigits(n \div 10), Digits[(n % 10) + 1])

RECURSIVE Log2(_)
Log2(d) == IF d <= 1 THEN 0 ELSE 1 + Log2(d \div 2)

RECURSIVE PadLeft(_, _)
PadLeft(s, k) == IF Len(s) >= k THEN s ELSE PadLeft(<<"0">> \o s, k)

\* float('inf'), float('infinity') and float('nan'): floats that are no
\* number of the reals (the sign of an infinity is not kept)
Infinity == <<2, 0>>
NaN == <<3, 0>>
InfinityWords == { <<"i","n","f">>, <<"i","n","f","i","n","i","t","y">> }
NaNWords == { <<"n","a","n">> }
NonFinite(v) == v = Infinity \/ v = NaN

\* float(key) succeeds: an optional sign, digits with at most one ".", and
\* at least one digit, or one of the words inf, infinity, nan (here in lower
\* case only)
UnsignedOk(s) == IsDigit(RemoveFirstDot(s))
FloatParses(key) ==
  IF key \in InfinityWords \cup NaNWords THEN TRUE
  ELSE IF Len(key) > 0 /\ key[1] = "-" THEN UnsignedOk(Tail(key))
  ELSE UnsignedOk(key)

UnsignedValue(s) ==
  IF HasDot(s)
  THEN LET k == CHOOSE i \in 1..Len(s) : s[i] = "."
           frac == Len(s) - k
       IN IF frac > 6 THEN NotExact
          ELSE Rat(DigitsToInt(RemoveFirstDot(s)), IntPow(10, frac))
  ELSE Rat(DigitsToInt(s), 1)

\* float(key), key a numeral
FloatOf(key) ==
  IF key \in InfinityWords THEN Infinity
  ELSE IF key \in NaNWords THEN NaN
  ELSE IF key[1] = "-"
  THEN LET u == UnsignedValue(Tail(key))
       IN IF IsReal(u) THEN <<-u[1], u[2]>> ELSE u
  ELSE UnsignedValue(key)

\* str(int(value)) of a whole float, str(value) of another one: repr is the
\* exact decimal expansion of a dyadic value of at most 15 digits that is
\* not below 1e-4 (below, repr turns to exponent notation: not modelled)
StrOk(v) ==
  IsReal(v) /\ (IsWhole(v) \/ (v[2] <= 4096 /\ Abs(v[1]) * 10000 >= v[2]
                                 /\ Abs(v[1]) <= 4096))
StrOf(v) ==
  LET sign == IF v[1] < 0 THEN <<"-">> ELSE <<>>
      n == Abs(v[1])
  IN IF IsWhole(v) THEN sign \o IntToDigits(n)
     ELSE LET k == Log2(v[2])
              ip == n \div v[2]
              fp == (n % v[2]) * IntPow(5, k)
          IN sign \o IntToDigits(ip) \o <<".">> \o PadLeft(IntToDigits(fp), k)

(***************************************************************************)
(* DASK_ParseTree.evaluate                                                 *)
(***************************************************************************)
Dask(expression, value, independent) ==
  [expression |-> expression, value |-> value, independent |-> independent]

\* a * (a + 1) // 2
summative(a) ==
  IF a = ComplexVal THEN Raise("TypeError")
  ELSE IF ~IsReal(a) THEN Ret(NotExact)
  ELSE LET p == FMul(a, FAdd(a, One))
       IN IF ~IsReal(p) THEN Ret(NotExact)
          ELSE Ret(Rat(Floor(<<p[1], p[2] * 2>>), 1))

\* op applied to two values that are not None
ApplyOperator(op, l, r) ==
  IF l = NotExact \/ r = NotExact THEN Ret(NotExact)
  ELSE IF op = <<"+","+">> \/ op = <<"/","/">>
  THEN LET tl == summative(l)
           tr == summative(r)
       IN IF tl.exc # "" THEN tl
          ELSE IF tr.exc # "" THEN tr
          ELSE IF tl.val = NotExact \/ tr.val = NotExact THEN Ret(NotExact)
          ELSE IF op = <<"+","+">> THEN Ret(FAdd(tl.val, tr.val))
          ELSE IF tr.val = Zero THEN Raise("ZeroDivisionError")
          ELSE Ret(FDiv(tl.val, tr.val))
  ELSE IF l = ComplexVal \/ r = ComplexVal
  THEN IF op = <<"/">> /\ r = Zero THEN Raise("ZeroDivisionError")
       ELSE IF op = <<"*","*">> /\ l = Zero THEN Ret(NotExact)
       ELSE IF InOperations(op) THEN Ret(ComplexVal)
       ELSE Ret(None)
  ELSE IF op = <<"+">> THEN Ret(FAdd(l, r))
  ELSE IF op = <<"-">> THEN Ret(FSub(l, r))
  ELSE IF op = <<"/">>
       THEN IF r = Zero THEN Raise("ZeroDivisionError") ELSE Ret(FDiv(l, r))
  ELSE IF op = <<"*">> THEN Ret(FMul(l, r))
  ELSE IF op = <<"*","*">> THEN FPow(l, r)
  ELSE Ret(None)

RECURSIVE evaluate(_, _)
evaluate(t, ht) ==
  LET leftTree == getLeftTree(t)
      rightTree == getRightTree(t)
      op == getKey(t)
  IN IF leftTree # None /\ rightTree # None
     THEN LET left_val == evaluate(leftTree, ht)
          IN IF left_val.exc # "" \/ left_val.val = None THEN left_val
             ELSE LET right_val == evaluate(rightTree, ht)
                  IN IF right_val.exc # "" \/ right_val.val = None
                     THEN right_val
                     ELSE ApplyOperator(op, left_val.val, right_val.val)
     ELSE IF InOperations(op) THEN Ret(None)
     ELSE IF IsAlpha(op)
       THEN LET e == getitem(ht, op)
            IN IF e # None THEN Ret(e[1].value) ELSE Ret(None)
     ELSE IF FloatParses(op) THEN Ret(FloatOf(op))
     ELSE Raise("ValueError")

(***************************************************************************)
(* src/expression_optimizer.py.  The log holds the rule of each entry,     *)
(* not its text.  An outcome is [exc, tree, log].                          *)
(***************************************************************************)
_is_leaf(node) == getLeftTree(node) = None /\ getRightTree(node) = None
_get_leaf_value(node) == IF _is_leaf(node) THEN Some(getKey(node)) ELSE None
_is_number(value) == FloatParses(value)
_get_number(value) == FloatOf(value)

\* float arithmetic with one operand that is nan or an infinity and one
\* that is real: the cases with a result that is again nan or an infinity;
\* every other case is left out of the model
NonFiniteResult(op, l, r) ==
  LET nf == IF NonFinite(l) THEN l ELSE r
      other == IF NonFinite(l) THEN r ELSE l
  IN IF ~IsReal(other) THEN NotExact
     ELSE IF op = <<"+">> \/ op = <<"-">> THEN nf
     ELSE IF op = <<"*">> /\ other # Zero THEN nf
     ELSE IF op = <<"/">> /\ NonFinite(l) /\ other[1] > 0 THEN nf
     ELSE IF op = <<"/">> /\ r = Infinity THEN Zero
     ELSE IF op = <<"*","*">> /\ NonFinite(l) /\ other = One THEN nf
     ELSE NotExact

\* None (as <<>>) when the operation is not folded, else <<result>>
_evaluate_constants(op, left_val, right_val) ==
  IF (NonFinite(left_val) \/ NonFinite(right_val))
       /\ op \in { <<"+">>, <<"-">>, <<"*">>, <<"/">>, <<"*","*">> }
  THEN Some(NonFiniteResult(op, left_val, right_val))
  ELSE IF op = <<"+">> THEN Some(FAdd(left_val, right_val))
  ELSE IF op = <<"-">> THEN Some(FSub(left_val, right_val))
  ELSE IF op = <<"*">> THEN Some(FMul(left_val, right_val))
  ELSE IF op = <<"/">>
       THEN IF right_val # Zero THEN Some(FDiv(left_val, right_val)) ELSE None
  ELSE IF op = <<"*","*">>
       THEN LET p == FPow(left_val, right_val)
            IN IF p.exc # "" THEN None ELSE Some(p.val)
  ELSE None

Opt(t, log) == [exc |-> "", tree |-> t, log |-> log]
OptRaise(e, log) == [exc |-> e, tree |-> None, log |-> log]

\* _create_number_node after the log entry of the folding was appended
_create_number_node(value, log) ==
  IF value = ComplexVal THEN OptRaise("TypeError", log)
  ELSE IF value = Infinity THEN OptRaise("OverflowError", log)
  ELSE IF value = NaN THEN OptRaise("ValueError", log)
  ELSE IF ~StrOk(value) THEN OptRaise("NotExact", log)
  ELSE Opt(BinaryTree(StrOf(value)), log)

NewNode(op, left, right) == <<op, left, right>>

_apply_rules(op, left, right, log) ==
  LET lv == _get_leaf_value(left)
      rv == _get_leaf_value(right)
      left_is_num == IF lv # None THEN _is_number(lv[1]) ELSE FALSE
      right_is_num == IF rv # None THEN _is_number(rv[1]) ELSE FALSE
      ln == IF left_is_num THEN _get_number(lv[1]) ELSE None
      rn == IF right_is_num THEN _get_number(rv[1]) ELSE None
      folded == IF left_is_num /\ right_is_num /\ ln # NotExact /\ rn # NotExact
                THEN _evaluate_constants(op, ln, rn) ELSE None
      same == lv # None /\ rv # None /\ lv = rv
  IN IF ln = NotExact \/ rn = NotExact THEN OptRaise("NotExact", log)
     ELSE IF folded # None
       THEN _create_number_node(folded[1], Append(log, "Constant folding"))
     ELSE IF op = <<"+">> /\ right_is_num /\ rn = Zero
       THEN Opt(left, Append(log, "Identity"))
     ELSE IF op = <<"+">> /\ left_is_num /\ ln = Zero
       THEN Opt(right, Append(log, "Identity"))
     ELSE IF op = <<"-">> /\ right_is_num /\ rn = Zero
       THEN Opt(left, Append(log, "Identity"))
     ELSE IF op = <<"-">> /\ same
       THEN Opt(BinaryTree(<<"0">>), Append(log, "Self-cancellation"))
     ELSE IF op = <<"*">> /\ right_is_num /\ rn = One
       THEN Opt(left, Append(log, "Identity"))
     ELSE IF op = <<"*">> /\ left_is_num /\ ln = One
       THEN Opt(right, Append(log, "Identity"))
     ELSE IF op = <<"*">> /\ right_is_num /\ rn = Zero
       THEN Opt(BinaryTree(<<"0">>), Append(log, "Zero rule"))
     ELSE IF op = <<"*">> /\ left_is_num /\ ln = Zero
       THEN Opt(BinaryTree(<<"0">>), Append(log, "Zero rule"))
     ELSE IF op = <<"/">> /\ right_is_num /\ rn = One
       THEN Opt(left, Append(log, "Identity"))
     ELSE IF op = <<"/">> /\ left_is_num /\ ln = Zero
               /\ ~(right_is_num /\ rn = Zero)
       THEN Opt(BinaryTree(<<"0">>), Append(log, "Zero rule"))
     ELSE IF op = <<"/">> /\ same
       THEN Opt(BinaryTree(<<"1">>), Append(log, "Self-cancellation"))
     ELSE IF op = <<"*","*">> /\ right_is_num /\ rn = One
       THEN Opt(left, Append(log, "Identity"))
     ELSE IF op = <<"*","*">> /\ right_is_num /\ rn = Zero
       THEN Opt(BinaryTree(<<"1">>), Append(log, "Power rule"))
     ELSE IF op = <<"*","*">> /\ left_is_num /\ ln = One
       THEN Opt(BinaryTree(<<"1">>), Append(log, "Power rule"))
     ELSE IF op = <<"*","*">> /\ left_is_num /\ ln = Zero
               /\ right_is_num /\ rn[1] > 0
       THEN Opt(BinaryTree(<<"0">>), Append(log, "Power rule"))
     ELSE Opt(NewNode(op, left, right), log)

\* a rewrite that tries the rules on a node before its children are optimized
RECURSIVE OptimizeNodePreOrder(_, _)
OptimizeNodePreOrder(node, log) ==
  IF node = None THEN Opt(None, log)
  ELSE IF _is_leaf(node) THEN Opt(BinaryTree(getKey(node)), log)
  ELSE LET top == _apply_rules(getKey(node), getLeftTree(node),
                               getRightTree(node), log)
       IN IF top.exc # "" \/ top.log # log THEN top
          ELSE LET ol == OptimizeNodePreOrder(getLeftTree(node), log)
                   or == OptimizeNodePreOrder(getRightTree(node), ol.log)
               IN IF ol.exc # "" THEN ol
                  ELSE IF or.exc # "" THEN or
                  ELSE Opt(NewNode(getKey(node), ol.tree, or.tree), or.log)

\* a rewrite that returns a leaf of its input as it is, not a copy
RECURSIVE OptimizeNodeInPlace(_, _)
OptimizeNodeInPlace(node, log) ==
  IF node = None THEN Opt(None, log)
  ELSE LET left == getLeftTree(node)
           right == getRightTree(node)
           op == getKey(node)
       IN IF left = None /\ right = None THEN Opt(node, log)
          ELSE LET ol == OptimizeNodeInPlace(left, log)
               IN IF ol.exc # "" THEN ol
                  ELSE LET or == OptimizeNodeInPlace(right, ol.log)
                       IN IF or.exc # "" THEN or
                          ELSE IF ol.tree = None \/ or.tree = None
                          THEN OptRaise("AttributeError", or.log)
                          ELSE _apply_rules(op, ol.tree, or.tree, or.log)

RECURSIVE _optimize_node(_, _)
_optimize_node(node, log) ==
  IF node = None THEN Opt(None, log)
  ELSE LET left == getLeftTree(node)
           right == getRightTree(node)
           op == getKey(node)
       IN IF left = None /\ right = None THEN Opt(BinaryTree(op), log)
          ELSE LET ol == _optimize_node(left, log)
               IN IF ol.exc # "" THEN ol
                  ELSE LET or == _optimize_node(right, ol.log)
                       IN IF or.exc # "" THEN or
                          ELSE IF ol.tree = None \/ or.tree = None
                          THEN OptRaise("AttributeError", or.log)
                          ELSE _apply_rules(op, ol.tree, or.tree, or.log)

\* optimize: the log is emptied, then the tree rewritten
optimize(t) == _optimize_node(t, <<>>)

(***************************************************************************)
(* The parsing pipeline on one input text: tokenize, validate, and build   *)
(* the tree of an accepted text (dask_input validates before main builds). *)
(***************************************************************************)
RECURSIVE Flatten(_)
Flatten(ss) == IF ss = <<>> THEN <<>> ELSE Head(ss) \o Flatten(Tail(ss))

\* texts made of at most MaxPieces pieces, well formed or not
MaxPieces == 5
Pieces == { <<"(">>, <<")">>, <<"+">>, <<"1">>, <<".">>, <<"x">>, EXP, <<" ">> }
PieceTexts ==
  { Flatten(ps) : ps \in UNION { [1..n -> Pieces] : n \in 0..MaxPieces } }

\* fully parenthesized texts with nested groups
GOperands == { <<"1">>, <<"x">>, <<"2",".","5">> }
GOps == { <<"+">>, <<"/","/">> }
Group1(xs) == { <<"(">> \o a \o <<")">> : a \in xs }
Group3(xs) ==
  { <<"(">> \o a \o o \o b \o <<")">> : a \in xs, o \in GOps, b \in xs }
GLevel1 == Group1(GOperands) \cup Group3(GOperands)
GLevel2 == Group1(GLevel1) \cup Group3({<<"1">>, <<"x">>} \cup GLevel1)
ParseInputs == PieceTexts \cup GLevel1 \cup GLevel2

ParseInit ==
  /\ exp \in ParseInputs
  /\ tokens = <<>>
  /\ verdict = None
  /\ tree = None
  /\ ppc = "start"
  /\ HtIdle /\ ExprIdle /\ ProgIdle /\ AnIdle

Tokenize ==
  /\ ppc = "start"
  /\ tokens' = tokenizer(exp)
  /\ ppc' = "tokenized"
  /\ UNCHANGED <<exp, verdict, tree>>
  /\ UNCHANGED notParse

Verify ==
  /\ ppc = "tokenized"
  /\ verdict' = Some(verify_expression(exp))
  /\ ppc' = "verified"
  /\ UNCHANGED <<exp, tokens, tree>>
  /\ UNCHANGED notParse

Build ==
  /\ ppc = "verified"
  /\ verdict = Some(TRUE)
  /\ tree' = buildParseTree(tokens)
  /\ ppc' = "built"
  /\ UNCHANGED <<exp, tokens, verdict>>
  /\ UNCHANGED notParse

ParseNext == Tokenize \/ Verify \/ Build

(***************************************************************************)
(* What the claims about the pipeline speak of                             *)
(***************************************************************************)
IsLeaf(t) == t[2] = None /\ t[3] = None

\* a numeric literal: digits with at most one decimal point
IsNumericLiteral(k) == IsDigit(RemoveFirstDot(k))

RECURSIVE WellFormedTree(_)
WellFormedTree(t) ==
  /\ t # None
  /\ t # BuildFailed
  /\ t[1] # Placeholder
  /\ \/ IsLeaf(t) /\ (IsNumericLiteral(t[1]) \/ IsAlpha(t[1]))
     \/ /\ t[2] # None /\ t[3] # None
        /\ InOperations(t[1])
        /\ WellFormedTree(t[2])
        /\ WellFormedTree(t[3])

\* the grammar  E ::= ( O ) | ( O op O ),  O ::= operand | E :
\* the index after the expression starting at k, or 0 if there is none
RECURSIVE EndOfGroup(_, _)
EndOfOperand(toks, k) ==
  IF k > Len(toks) THEN 0
  ELSE IF toks[k] = LP THEN EndOfGroup(toks, k)
  ELSE IF IsOperandToken(toks[k]) THEN k + 1 ELSE 0
EndOfGroup(toks, k) ==
  IF k > Len(toks) \/ toks[k] # LP THEN 0
  ELSE LET a == EndOfOperand(toks, k + 1)
       IN IF a = 0 \/ a > Len(toks) THEN 0
          ELSE IF toks[a] = RP THEN a + 1
          ELSE IF ~InOperations(toks[a]) THEN 0
          ELSE LET b == EndOfOperand(toks, a + 1)
               IN IF b = 0 \/ b > Len(toks) THEN 0
                  ELSE IF toks[b] = RP THEN b + 1 ELSE 0

FullyParenthesized(toks) == EndOfGroup(toks, 1) = Len(toks) + 1

HasParen(s) == \E i \in 1..Len(s) : s[i] = "(" \/ s[i] = ")"

\* C6: the tree built from an accepted text has only nodes with zero or two
\* children, an operator in every two-child node, a literal or a name in
\* every leaf, and no placeholder key.
C6_BuiltTreeWellFormed == ppc = "built" => WellFormedTree(tree)

\* C7: only fully parenthesized texts are accepted: the tokens start with
\* "(", end with ")", every group is one operand or one binary operation,
\* and a text without any parenthesis is rejected.
C7_OnlyFullyParenthesized ==
  verdict = Some(TRUE) =>
    /\ Len(tokens) > 0 /\ tokens[1] = LP /\ tokens[Len(tokens)] = RP
    /\ FullyParenthesized(tokens)
    /\ HasParen(exp)

(***************************************************************************)
(* Evaluation and optimization of one tree, over a store holding x.        *)
(***************************************************************************)
MaxOps == 2
LeafKeys == { <<"0">>, <<"1">>, <<"2">>, <<"x">> }
OperatorKeys == { operations[i] : i \in 1..Len(operations) }

\* the well-formed trees with exactly n operator nodes
RECURSIVE TreesWith(_)
TreesWith(n) ==
  IF n = 0 THEN { BinaryTree(k) : k \in LeafKeys }
  ELSE UNION { { NewNode(o, l, r) :
                   o \in OperatorKeys, l \in TreesWith(i),
                   r \in TreesWith(n - 1 - i) } : i \in 0..(n - 1) }
ExprTrees == UNION { TreesWith(n) : n \in 0..MaxOps }

\* x absent, x defined without a value, x = 0, x = 2, and a store that
\* defines the variable inf = 4
XKey == <<"x">>
XTokens == <<LP, <<"1">>, RP>>
InfKey == <<"i","n","f">>
Stores ==
  { HashTableNew(TableSize) } \cup
  { setitem(HashTableNew(TableSize), XKey, Some(Dask(XTokens, v, FALSE))) :
      v \in { None, Zero, <<2, 1>> } } \cup
  { setitem(HashTableNew(TableSize), InfKey,
            Some(Dask(XTokens, <<4, 1>>, FALSE))) }

\* trees with a power beyond the floats next to the variable
BigPower ==
  NewNode(<<"*","*">>, BinaryTree(<<"2">>), BinaryTree(<<"1","0","2","4">>))
OverflowTrees ==
  { NewNode(<<"+">>, BigPower, BinaryTree(XKey)),
    NewNode(<<"+">>, BinaryTree(XKey), BigPower),
    BigPower }

\* trees that give the custom operators an operand that is not whole
Fraction == BinaryTree(<<"1",".","5">>)
FractionTrees ==
  { NewNode(o, l, r) :
      o \in { <<"+","+">>, <<"/","/">> },
      l \in { Fraction, BinaryTree(<<"1">>), BinaryTree(XKey) },
      r \in { Fraction, BinaryTree(<<"2">>) } }

\* the identity patterns on a variable leaf and on a leaf named like a float
IdentityTrees ==
  UNION { { NewNode(<<"+">>, BinaryTree(v), BinaryTree(<<"0">>)),
            NewNode(<<"+">>, BinaryTree(<<"0">>), BinaryTree(v)),
            NewNode(<<"-">>, BinaryTree(v), BinaryTree(<<"0">>)),
            NewNode(<<"*">>, BinaryTree(v), BinaryTree(<<"1">>)),
            NewNode(<<"*">>, BinaryTree(<<"1">>), BinaryTree(v)),
            NewNode(<<"/">>, BinaryTree(v), BinaryTree(<<"1">>)),
            NewNode(<<"*","*">>, BinaryTree(v), BinaryTree(<<"1">>)) } :
          v \in { <<"y">>, <<"i","n","f">>, <<"n","a","n">> } }

\* a negative number to a power that is not whole, and a number divided by
\* the variable inf
ComplexPower ==
  NewNode(<<"*","*">>,
          NewNode(<<"-">>, BinaryTree(<<"0">>), BinaryTree(<<"1">>)), Fraction)
QuotientByInf == NewNode(<<"/">>, BinaryTree(<<"2">>), BinaryTree(InfKey))

\* a float of the tree is outside the exactly modelled ones
Unmodelled(t) == optimize(t).exc = "NotExact"

ExprInit ==
  /\ in_tree \in ExprTrees \cup OverflowTrees \cup FractionTrees
                  \cup IdentityTrees \cup { ComplexPower, QuotientByInf }
  /\ ~Unmodelled(in_tree)
  /\ ev = None /\ opt1 = None /\ opt2 = None
  /\ HtIdle /\ ParseIdle /\ ProgIdle /\ AnIdle

\* parser.evaluate(tree, hash_table) over one of the stores
Evaluate ==
  /\ ev = None /\ opt1 = None
  /\ \E st \in Stores :
       /\ evaluate(in_tree, st).val # NotExact
       /\ hash_table' = st
       /\ ev' = Some(evaluate(in_tree, st))
  /\ UNCHANGED <<in_tree, opt1, opt2>>
  /\ UNCHANGED notExpr

\* the objects of the tree given to optimize: each node carries, as a fourth
\* component, the path it has in that tree; a node made by BinaryTree(...)
\* has none
RECURSIVE WithIdentity(_, _)
WithIdentity(t, path) ==
  IF t = None THEN None
  ELSE <<t[1], WithIdentity(t[2], Append(path, 2)),
         WithIdentity(t[3], Append(path, 3)), path>>

\* optimizer.optimize(in_tree)
Optimize ==
  /\ ev = None /\ opt1 = None
  /\ opt1' = Some(optimize(WithIdentity(in_tree, <<>>)))
  /\ UNCHANGED <<hash_table, in_tree, ev, opt2>>
  /\ UNCHANGED notExpr

\* optimize applied to the tree the first call returned
Reoptimize ==
  /\ opt1 # None /\ opt1[1].exc = ""
  /\ opt2 = None
  /\ opt2' = Some(optimize(opt1[1].tree))
  /\ UNCHANGED <<hash_table, in_tree, ev, opt1>>
  /\ UNCHANGED notExpr

ExprNext == Evaluate \/ Optimize \/ Reoptimize

(***************************************************************************)
(* The store alone: any sequence of set and delete on a table of the       *)
(* program's size, over keys of which some collide.                        *)
(***************************************************************************)
\* "ab" and "ba" hash to 95; "c" and "dc" hash to 99 and probe round to 0
HtKeys == { <<"a","b">>, <<"b","a">>, <<"c">>, <<"d","c">> }
MaxVal == 2
HtValues == 1..MaxVal
MaxHtOps == 6

HtInit ==
  /\ hash_table = HashTableNew(TableSize)
  /\ shadow = [k \in HtKeys |-> None]
  /\ ht_ops = 0
  /\ ParseIdle /\ ExprIdle /\ ProgIdle /\ AnIdle

HtSet(k, v) ==
  /\ ht_ops < MaxHtOps
  /\ hash_table' = setitem(hash_table, k, Some(v))
  /\ shadow' = [shadow EXCEPT ![k] = Some(v)]
  /\ ht_ops' = ht_ops + 1
  /\ UNCHANGED notHt

HtDel(k) ==
  /\ ht_ops < MaxHtOps
  /\ hash_table' = delitem(hash_table, k)
  /\ shadow' = [shadow EXCEPT ![k] = None]
  /\ ht_ops' = ht_ops + 1
  /\ UNCHANGED notHt

HtNext ==
  \/ \E k \in HtKeys, v \in HtValues : HtSet(k, v)
  \/ \E k \in HtKeys : HtDel(k)



(***************************************************************************)
(* main.py: the store, the scheduler graph, define and the batch pass.     *)
(* nx.DiGraph is [nodes, edges]; an edge <<t, k>> says k relies on t.      *)
(***************************************************************************)
DiGraph == [nodes |-> {}, edges |-> {}]

add_edge(g, u, v) ==
  [nodes |-> g.nodes \cup {u, v}, edges |-> g.edges \cup {<<u, v>>}]

remove_node(g, n) ==
  [nodes |-> g.nodes \ {n},
   edges |-> { e \in g.edges : e[1] # n /\ e[2] # n }]

\* the tokens t of a token list with t.isalpha()
AlphaTokens(toks) == { toks[i] : i \in { j \in DOMAIN toks : IsAlpha(toks[j]) } }

RECURSIVE AddEdges(_, _, _)
AddEdges(g, ts, key) ==
  IF ts = {} THEN g
  ELSE LET t == CHOOSE x \in ts : TRUE
       IN AddEdges(add_edge(g, t, key), ts \ {t}, key)

\* add_dask_expresssion(key, exp): the store and the graph after the call,
\* and the exception that ended it, if one did.  The record is one object:
\* setting a field of dask_obj changes the record in the slot that holds it.
\* parser.evaluate(parser.buildParseTree(toks), ht)
BuildAndEvaluate(toks, ht) ==
  LET Eval(t) == IF t = BuildFailed THEN Raise("IndexError")
                 ELSE evaluate(t, ht)
  IN Eval(buildParseTree(toks))

add_dask_expresssion(ht, g, key, e) ==
  LET Independent(toks, ht2, g1) ==
        LET Store(value) ==
              IF value.exc # ""
              THEN [ht |-> ht2, graph |-> g1, exc |-> value.exc]
              ELSE [ht |-> setitem(ht2, key,
                                   Some(Dask(toks, value.val, TRUE))),
                    graph |-> g1, exc |-> ""]
        IN Store(BuildAndEvaluate(toks, ht2))
      Added(toks, ht1) ==
        IF AlphaTokens(toks) # {}
        THEN [ht |-> ht1, graph |-> AddEdges(g, AlphaTokens(toks), key),
              exc |-> ""]
        ELSE Independent(toks,
                         setitem(ht1, key, Some(Dask(toks, None, TRUE))), g)
      Tokenized(toks) ==
        Added(toks, setitem(ht, key, Some(Dask(toks, None, FALSE))))
  IN Tokenized(tokenizer(e))

RECURSIVE Perms(_)
Perms(S) ==
  IF S = {} THEN { <<>> }
  ELSE UNION { { <<x>> \o p : p \in Perms(S \ {x}) } : x \in S }

Pos(seq, x) == CHOOSE i \in DOMAIN seq : seq[i] = x
InSequence(seq, x) == \E i \in DOMAIN seq : seq[i] = x

\* the orders of the nodes with the edges ignored
AnyOrder(g) == Perms(g.nodes)

\* nx.topological_sort(g): some order of the nodes with every edge pointing
\* forward; none exists when the graph has a cycle or a self-loop, and the
\* call raises NetworkXUnfeasible
topological_sort(g) ==
  { p \in Perms(g.nodes) : \A e \in g.edges : Pos(p, e[1]) < Pos(p, e[2]) }

\* a walk that evaluates every record it finds, flagged independent or not
RECURSIVE WalkOrderAll(_, _, _, _)
WalkOrderAll(ht, sorted_graph, i, evaluated) ==
  IF i > Len(sorted_graph)
  THEN [ht |-> ht, exc |-> "", evaluated |-> evaluated]
  ELSE LET var == sorted_graph[i]
           Store(dask_obj, value) ==
             IF value.exc # ""
             THEN [ht |-> ht, exc |-> value.exc, evaluated |-> evaluated]
             ELSE WalkOrderAll(
                    setitem(ht, var,
                            Some([dask_obj[1] EXCEPT !.value = value.val])),
                    sorted_graph, i + 1, Append(evaluated, var))
           Visit(dask_obj) ==
             IF dask_obj = None
             THEN WalkOrderAll(ht, sorted_graph, i + 1, evaluated)
             ELSE Store(dask_obj,
                        BuildAndEvaluate(dask_obj[1].expression, ht))
       IN Visit(getitem(ht, var))

\* the loop of show_dask_expressions over sorted_graph, from position i
RECURSIVE WalkOrder(_, _, _, _)
WalkOrder(ht, sorted_graph, i, evaluated) ==
  IF i > Len(sorted_graph)
  THEN [ht |-> ht, exc |-> "", evaluated |-> evaluated]
  ELSE LET var == sorted_graph[i]
           Store(dask_obj, value) ==
             IF value.exc # ""
             THEN [ht |-> ht, exc |-> value.exc, evaluated |-> evaluated]
             ELSE WalkOrder(
                    setitem(ht, var,
                            Some([dask_obj[1] EXCEPT !.value = value.val])),
                    sorted_graph, i + 1, Append(evaluated, var))
           Visit(dask_obj) ==
             IF dask_obj = None
             THEN WalkOrder(ht, sorted_graph, i + 1, evaluated)
             ELSE IF dask_obj[1].independent
             THEN WalkOrder(ht, sorted_graph, i + 1, evaluated)
             ELSE Store(dask_obj,
                        BuildAndEvaluate(dask_obj[1].expression, ht))
       IN Visit(getitem(ht, var))

\* the keys of the records with the independent flag
IndependentKeys(ht) == { it[2] : it \in { x \in items(ht) : x[3][1].independent } }

\* show_dask_expressions(hash_table, topological_graph): every outcome the
\* call can have, one for each order topological_sort can return.
\*   exc: the exception that ended the pass, "" if none
\*   order: sorted_graph;  evaluated: the variables evaluated, in sequence
\*   shown: the keys of the sorted map returned
show_dask_expressions(ht, g) ==
  LET Walked(p, w, independent) ==
        [ht |-> w.ht, exc |-> w.exc, order |-> p, evaluated |-> w.evaluated,
         shown |-> independent
                     \cup { w.evaluated[i] : i \in DOMAIN w.evaluated }]
      Sorted(orders, independent) ==
        IF orders = {}
        THEN { [ht |-> ht, exc |-> "NetworkXUnfeasible", order |-> <<>>,
                evaluated |-> <<>>, shown |-> independent] }
        ELSE { Walked(p, WalkOrder(ht, p, 1, <<>>), independent)
                 : p \in orders }
  IN Sorted(topological_sort(g), IndependentKeys(ht))

\* str.split('=', 1) of a line that holds '=': the text before the first '='
\* and the text after it
FirstEq(line) == CHOOSE i \in DOMAIN line :
                   line[i] = "=" /\ \A j \in 1..(i - 1) : line[j] # "="
HasEq(line) == \E i \in DOMAIN line : line[i] = "="
SplitKey(line) == SubSeq(line, 1, FirstEq(line) - 1)
SplitExp(line) == SubSeq(line, FirstEq(line) + 1, Len(line))

\* validators.dask_input: None where it prompts again, else <<key, exp>>.
\* The lines typed here have no blank at either end (strip changes nothing).
dask_input(line, allow_quit) ==
  IF allow_quit /\ (line = <<"q">> \/ line = <<"Q">>) THEN Some(<<<<"q">>, <<"q">>>>)
  ELSE IF line = <<>> \/ ~HasEq(line) THEN None
  ELSE IF ~verify_expression(SplitExp(line)) THEN None
  ELSE Some(<<SplitKey(line), SplitExp(line)>>)

\* the lines typed at the prompts
Names == { <<"a">>, <<"b">>, <<"c">> }
Keys == { <<"a">>, <<"b">> }
ExpTexts ==
  { <<"(", "1", ")">>, <<"1", "+", "1">> }
    \cup { <<"(">> \o n \o <<"+", "1", ")">> : n \in Names }
Lines == { k \o <<"=">> \o e : k \in Keys, e \in ExpTexts }
MaxProgOps == 6

\* the answer of dask_input to each line, computed once
BatchLines == { k \o <<"=">> \o e : k \in Names, e \in ExpTexts }
DaskInputs ==
  [allow_quit \in BOOLEAN |->
     [line \in Lines \cup BatchLines \cup { <<"q">> } |->
        dask_input(line, allow_quit)]]

ProgInit ==
  /\ hash_table = HashTableNew(TableSize)
  /\ topological_graph = DiGraph
  /\ mode = "menu"
  /\ pending_keys = <<>>
  /\ last_pass = None
  /\ last_op = None
  /\ prog_ops = 0
  /\ shadow = None /\ ht_ops = 0
  /\ ParseIdle /\ ExprIdle /\ AnIdle

\* what a finished call of show_dask_expressions leaves in last_pass
PassRecord(r, at) ==
  Some([exc |-> r.exc, order |-> r.order, evaluated |-> r.evaluated,
        shown |-> r.shown, at |-> at])

\* choice 1: one accepted line; an exception ends the program
Define(line) ==
  /\ mode = "menu" /\ prog_ops < MaxProgOps
  /\ DaskInputs[FALSE][line] # None
  /\ \E kv \in { DaskInputs[FALSE][line][1] } :
     \E r \in { add_dask_expresssion(hash_table, topological_graph,
                                     kv[1], kv[2]) } :
       /\ hash_table' = r.ht
       /\ topological_graph' = r.graph
       /\ mode' = IF r.exc # "" THEN "crashed" ELSE "menu"
  /\ prog_ops' = prog_ops + 1
  /\ UNCHANGED <<pending_keys, last_pass>>
  /\ last_op' = None
  /\ UNCHANGED notProg

\* choice 2: the batch pass
Show ==
  /\ mode = "menu" /\ prog_ops < MaxProgOps
  /\ \E r \in show_dask_expressions(hash_table, topological_graph) :
       /\ hash_table' = r.ht
       /\ last_pass' = PassRecord(r, prog_ops + 1)
       /\ mode' = IF r.exc # "" THEN "crashed" ELSE "menu"
  /\ prog_ops' = prog_ops + 1
  /\ UNCHANGED <<topological_graph, pending_keys>>
  /\ last_op' = None
  /\ UNCHANGED notProg

\* choice 7, up to the first prompt: a batch pass, then no key is pending
VisualizerStart ==
  /\ mode = "menu" /\ prog_ops < MaxProgOps
  /\ \E r \in show_dask_expressions(hash_table, topological_graph) :
       /\ hash_table' = r.ht
       /\ last_pass' = PassRecord(r, prog_ops + 1)
       /\ mode' = IF r.exc # "" THEN "crashed" ELSE "visualizer"
  /\ pending_keys' = <<>>
  /\ prog_ops' = prog_ops + 1
  /\ UNCHANGED topological_graph
  /\ last_op' = None
  /\ UNCHANGED notProg

\* choice 7, one turn of the loop: the line is added as a pending
\* expression and a batch pass runs.  The line typed at the prompt that
\* follows is discarded unless it is 'q'.
VisualizerAdd(line) ==
  /\ mode = "visualizer" /\ prog_ops < MaxProgOps
  /\ DaskInputs[TRUE][line] # None
  /\ \E kv \in { DaskInputs[TRUE][line][1] } :
     \E a \in { add_dask_expresssion(hash_table, topological_graph,
                                     kv[1], kv[2]) } :
        /\ pending_keys' = Append(pending_keys, kv[1])
        /\ topological_graph' = a.graph
        /\ IF a.exc # ""
           THEN /\ hash_table' = a.ht
                /\ mode' = "crashed"
                /\ UNCHANGED last_pass
           ELSE \E r \in show_dask_expressions(a.ht, a.graph) :
                  /\ hash_table' = r.ht
                  /\ last_pass' = PassRecord(r, prog_ops + 1)
                  /\ mode' = IF r.exc # "" THEN "crashed" ELSE "visualizer"
  /\ prog_ops' = prog_ops + 1
  /\ last_op' = None
  /\ UNCHANGED notProg

\* the loop "for pk in pending_keys" of choice 7, from position i
RECURSIVE DiscardPending(_, _, _, _)
DiscardPending(ht, g, pks, i) ==
  IF i > Len(pks) THEN [ht |-> ht, graph |-> g]
  ELSE DiscardPending(delitem(ht, pks[i]),
                      IF pks[i] \in g.nodes THEN remove_node(g, pks[i]) ELSE g,
                      pks, i + 1)

\* choice 7, 'q' at the prompt after a turn, then the answer to "add these
\* expressions?": 'n' deletes every pending key from store and graph
VisualizerEnd(add_expressions) ==
  /\ mode = "visualizer" /\ prog_ops < MaxProgOps
  /\ Len(pending_keys) > 0
  /\ \E d \in { IF add_expressions = "n"
                  THEN DiscardPending(hash_table, topological_graph,
                                      pending_keys, 1)
                  ELSE [ht |-> hash_table, graph |-> topological_graph] } :
       /\ hash_table' = d.ht
       /\ topological_graph' = d.graph
  /\ mode' = "menu"
  /\ pending_keys' = <<>>
  /\ prog_ops' = prog_ops + 1
  /\ UNCHANGED last_pass
  /\ last_op' = None
  /\ UNCHANGED notProg

\* str.strip() for the blanks of a line
RECURSIVE strip(_)
strip(s) ==
  IF s = <<>> THEN s
  ELSE IF s[1] = " " THEN strip(Tail(s))
  ELSE IF s[Len(s)] = " " THEN strip(SubSeq(s, 1, Len(s) - 1))
  ELSE s

\* one line of the loop of choice 4 up to the call of add_dask_expresssion:
\* the unpacking of split('=', 1) raises ValueError on a line without '=',
\* and a line whose expression is rejected is skipped
file_line(line) ==
  IF ~HasEq(strip(line))
  THEN [exc |-> "ValueError", skip |-> FALSE, key |-> <<>>, exp |-> <<>>]
  ELSE [exc |-> "",
        skip |-> ~verify_expression(SplitExp(strip(line))),
        key |-> SplitKey(strip(line)),
        exp |-> SplitExp(strip(line))]

\* the lines of the files read by choice 4, which is among the first
\* MaxFileAt operations of a run
MaxFileLines == 2
MaxFileAt == 2
FileLineSet ==
  { <<"a", "=", "(", "1", ")">>,
    <<"b", "=", "(", "a", "+", "1", ")">>,
    <<"c", "=", "(", "b", "+", "1", ")", " ">>,
    <<"b", "=", "1", "+", "1">>,
    <<"b">>,
    <<" ">> }
Files == UNION { [1..n -> FileLineSet] : n \in 1..MaxFileLines }
FileLines == [line \in FileLineSet |-> file_line(line)]

\* "for line in lines" of choice 4, from position i
RECURSIVE LoadLines(_, _, _, _)
LoadLines(ht, g, lines, i) ==
  IF i > Len(lines) THEN [ht |-> ht, graph |-> g, exc |-> ""]
  ELSE LET Added(r) ==
             IF r.exc # "" THEN r ELSE LoadLines(r.ht, r.graph, lines, i + 1)
           Line(l) ==
             IF l.exc # "" THEN [ht |-> ht, graph |-> g, exc |-> l.exc]
             ELSE IF l.skip THEN LoadLines(ht, g, lines, i + 1)
             ELSE Added(add_dask_expresssion(ht, g, l.key, l.exp))
       IN Line(FileLines[lines[i]])

\* choice 4: the lines of the file are added, then the batch pass runs
ReadFile(lines) ==
  /\ mode = "menu" /\ prog_ops < MaxProgOps /\ prog_ops < MaxFileAt
  /\ \E a \in { LoadLines(hash_table, topological_graph, lines, 1) } :
       /\ topological_graph' = a.graph
       /\ IF a.exc # ""
          THEN /\ hash_table' = a.ht
               /\ mode' = "crashed"
               /\ UNCHANGED last_pass
               /\ last_op' = Some([op |-> "file", lines |-> lines,
                                   exc |-> a.exc])
          ELSE \E r \in show_dask_expressions(a.ht, a.graph) :
                 /\ hash_table' = r.ht
                 /\ last_pass' = PassRecord(r, prog_ops + 1)
                 /\ mode' = IF r.exc # "" THEN "crashed" ELSE "menu"
                 /\ last_op' = Some([op |-> "file", lines |-> lines,
                                     exc |-> r.exc])
  /\ prog_ops' = prog_ops + 1
  /\ UNCHANGED pending_keys
  /\ UNCHANGED notProg

\* choice 3: the prompt is repeated until var is in the store; its tree is
\* built from the stored tokens and evaluated
EvaluateSingle(var) ==
  /\ mode = "menu" /\ prog_ops < MaxProgOps
  /\ getitem(hash_table, var) # None
  /\ \E value \in { BuildAndEvaluate(getitem(hash_table, var)[1].expression,
                                     hash_table) } :
       /\ last_op' = Some([op |-> "single", var |-> var, exc |-> value.exc,
                           val |-> value.val])
       /\ mode' = IF value.exc # "" THEN "crashed" ELSE "menu"
  /\ prog_ops' = prog_ops + 1
  /\ UNCHANGED <<hash_table, topological_graph, pending_keys, last_pass>>
  /\ UNCHANGED notProg

\* choice 1 for a key that is not in the store yet
DefineOnce(line) ==
  /\ getitem(hash_table, SplitKey(line)) = None
  /\ Define(line)

\* runs where every variable is defined at most once, with batch passes
BatchNext ==
  \/ \E line \in BatchLines : DefineOnce(line)
  \/ Show

Next ==
  \/ \E line \in Lines : Define(line)
  \/ Show
  \/ VisualizerStart
  \/ \E line \in Lines \cup { <<"q">> } : VisualizerAdd(line)
  \/ \E add_expressions \in { "y", "n" } : VisualizerEnd(add_expressions)
  \/ \E lines \in Files : ReadFile(lines)
  \/ \E var \in Names : EvaluateSingle(var)

(***************************************************************************)
(* src/dependency_analyzer.py: DependencyAnalyzer.  A dict is [order, adj]:*)
(* the keys in insertion order and the function from key to value.  A set  *)
(* of str is iterated in an order that changes from run to run (str hashes *)
(* are salted), so every order is taken.                                   *)
(***************************************************************************)
UNVISITED == 0
VISITING == 1
VISITED == 2

\* hash_table.items() as the sequence it yields: slot order
RECURSIVE ItemsFrom(_, _)
ItemsFrom(ht, i) ==
  IF i > ht.size THEN <<>>
  ELSE (IF ht.keys[i] # NoneKey /\ ht.keys[i] # DELETE
        THEN << <<ht.keys[i], ht.buckets[i]>> >> ELSE <<>>)
       \o ItemsFrom(ht, i + 1)

_extract_dependencies(toks) ==
  { toks[i] : i \in { j \in DOMAIN toks : IsAlpha(toks[j]) } }

\* a first pass that adds no entry for a referenced name
AddMissingSkipped(g, p, i) == g

\* "if dep not in self._forward_graph: self._forward_graph[dep] = set()"
\* for the dependencies in the order p, from position i
RECURSIVE AddMissing(_, _, _)
AddMissing(g, p, i) ==
  IF i > Len(p) THEN g
  ELSE AddMissing(IF p[i] \in DOMAIN g.adj THEN g
                  ELSE [order |-> Append(g.order, p[i]),
                        adj |-> g.adj @@ (p[i] :> {})],
                  p, i + 1)

\* first pass of _build_graphs over the items its, from position i: the
\* forward graphs it can build
RECURSIVE BuildForward(_, _, _)
BuildForward(its, i, g) ==
  IF i > Len(its) THEN { g }
  ELSE LET variable == its[i][1]
           dask_obj == its[i][2]
           Assigned(dependencies) ==
             LET g1 == [order |-> IF variable \in DOMAIN g.adj THEN g.order
                                  ELSE Append(g.order, variable),
                        adj |-> (variable :> dependencies) @@ g.adj]
             IN UNION { BuildForward(its, i + 1, AddMissing(g1, p, 1))
                          : p \in Perms(dependencies) }
       IN IF dask_obj = None THEN BuildForward(its, i + 1, g)
          ELSE Assigned(_extract_dependencies(dask_obj[1].expression)
                          \ {variable})

\* second pass of _build_graphs: the transpose
ReverseOf(adj) ==
  [dep \in DOMAIN adj |-> { var \in DOMAIN adj : dep \in adj[var] }]

DefinedIn(its) ==
  { its[i][1] : i \in { j \in DOMAIN its : its[j][2] # None } }

\* a cycle made of the entered node and the end of the path only
ReconstructShort(path, cycle_start) ==
  <<cycle_start, path[Len(path)], cycle_start>>

_reconstruct_cycle(path, cycle_start) ==
  IF InSequence(path, cycle_start)
  THEN LET start_idx == CHOOSE i \in DOMAIN path :
                          /\ path[i] = cycle_start
                          /\ \A j \in 1..(i - 1) : path[j] # cycle_start
       IN Append(SubSeq(path, start_idx, Len(path)), cycle_start)
  ELSE <<cycle_start, path[Len(path)], cycle_start>>

\* get_dependencies(variable): self._forward_graph.get(variable, set())
get_dependencies(fg, variable) ==
  IF variable \in DOMAIN fg.adj THEN fg.adj[variable] ELSE {}

\* the stores handed to the analyzer: each name is left out or defined once
AnTexts ==
  { <<"(", "1", ")">> }
    \cup { <<"(">> \o n \o <<"+", "1", ")">> : n \in Names }
    \cup { <<"(">> \o p[1] \o <<"+">> \o p[2] \o <<")">> :
             p \in { q \in Names \X Names : Ord(q[1][1]) < Ord(q[2][1]) } }
NameSeq == << <<"a">>, <<"b">>, <<"c">> >>

\* add_dask_expresssion for the names of NameSeq that d defines, from i
RECURSIVE DefineAll(_, _, _, _)
DefineAll(ht, g, d, i) ==
  IF i > Len(NameSeq) THEN ht
  ELSE IF d[NameSeq[i]] = None THEN DefineAll(ht, g, d, i + 1)
  ELSE LET Added(r) == DefineAll(r.ht, r.graph, d, i + 1)
       IN Added(add_dask_expresssion(ht, g, NameSeq[i], d[NameSeq[i]][1]))

AnInit ==
  /\ \E d \in [Names -> { None } \cup { Some(e) : e \in AnTexts }] :
       hash_table = DefineAll(HashTableNew(TableSize), DiGraph, d, 1)
  /\ shadow = None /\ ht_ops = 0
  /\ forward_graph = None /\ reverse_graph = None /\ defined_variables = {}
  /\ state = None /\ frames = <<>> /\ root_idx = 0 /\ cycles = None
  /\ vars_in_cycles = None
  /\ undefined_vars = None /\ queried = None /\ queue = <<>>
  /\ visited = {} /\ levels = <<>>
  /\ apc = "new"
  /\ ParseIdle /\ ExprIdle /\ ProgIdle

\* DependencyAnalyzer(hash_table): __init__ and _build_graphs
Analyze ==
  /\ apc = "new"
  /\ \E its \in { ItemsFrom(hash_table, 1) } :
     \E g \in BuildForward(its, 1, [order |-> <<>>, adj |-> <<>>]) :
       /\ forward_graph' = g
       /\ reverse_graph' = ReverseOf(g.adj)
       /\ defined_variables' = DefinedIn(its)
  /\ apc' = "built"
  /\ UNCHANGED <<state, frames, root_idx, cycles, vars_in_cycles>>
  /\ UNCHANGED queryVars
  /\ UNCHANGED notAn

\* detect_cycles up to its loop over the nodes
DetectCycles ==
  /\ apc = "built"
  /\ state' = [node \in DOMAIN forward_graph.adj |-> UNVISITED]
  /\ vars_in_cycles' = {}
  /\ cycles' = <<>>
  /\ root_idx' = 1
  /\ apc' = "dfs"
  /\ UNCHANGED <<forward_graph, reverse_graph, defined_variables, frames>>
  /\ UNCHANGED queryVars
  /\ UNCHANGED notAn

\* a call that forgets the path it was handed
FrameFromNode(node, path) ==
  [node |-> node, path |-> <<node>>, todo |-> forward_graph.adj[node]]

\* a call dfs(node, path): the frame it opens
Frame(node, path) ==
  [node |-> node, path |-> path, todo |-> forward_graph.adj[node]]

\* one turn of "for node in self._forward_graph"
DfsRoot ==
  /\ apc = "dfs" /\ frames = <<>> /\ root_idx <= Len(forward_graph.order)
  /\ \E node \in { forward_graph.order[root_idx] } :
       IF state[node] = UNVISITED
       THEN /\ frames' = << Frame(node, <<node>>) >>
            /\ state' = [state EXCEPT ![node] = VISITING]
       ELSE UNCHANGED <<frames, state>>
  /\ root_idx' = root_idx + 1
  /\ UNCHANGED <<forward_graph, reverse_graph, defined_variables, cycles,
                 vars_in_cycles, apc>>
  /\ UNCHANGED queryVars
  /\ UNCHANGED notAn

\* one turn of "for neighbor in self._forward_graph.get(node, set())"
DfsNeighbor ==
  /\ apc = "dfs" /\ frames # <<>>
  /\ \E top \in { frames[Len(frames)] } :
     \E neighbor \in top.todo :
     \E rest \in { [frames EXCEPT ![Len(frames)].todo = top.todo \ {neighbor}] } :
       IF neighbor \notin DOMAIN state
       THEN /\ frames' = rest
            /\ UNCHANGED <<state, cycles, vars_in_cycles>>
       ELSE IF state[neighbor] = VISITING
       THEN \E cycle \in { _reconstruct_cycle(top.path, neighbor) } :
              /\ cycles' = Append(cycles, cycle)
              /\ vars_in_cycles' =
                   vars_in_cycles \cup { cycle[i] : i \in 1..(Len(cycle) - 1) }
              /\ frames' = rest
              /\ UNCHANGED state
       ELSE IF state[neighbor] = UNVISITED
       THEN /\ frames' = Append(rest, Frame(neighbor, Append(top.path, neighbor)))
            /\ state' = [state EXCEPT ![neighbor] = VISITING]
            /\ UNCHANGED <<cycles, vars_in_cycles>>
       ELSE /\ frames' = rest
            /\ UNCHANGED <<state, cycles, vars_in_cycles>>
  /\ UNCHANGED <<forward_graph, reverse_graph, defined_variables, root_idx, apc>>
  /\ UNCHANGED queryVars
  /\ UNCHANGED notAn

\* a node left with the colour it had before the walk
MarkUnvisited(st, node) == [st EXCEPT ![node] = UNVISITED]

\* "state[node] = self.VISITED"
MarkVisited(st, node) == [st EXCEPT ![node] = VISITED]

\* the end of a call of dfs
DfsReturn ==
  /\ apc = "dfs" /\ frames # <<>>
  /\ frames[Len(frames)].todo = {}
  /\ state' = MarkVisited(state, frames[Len(frames)].node)
  /\ frames' = SubSeq(frames, 1, Len(frames) - 1)
  /\ UNCHANGED <<forward_graph, reverse_graph, defined_variables, root_idx,
                 cycles, vars_in_cycles, apc>>
  /\ UNCHANGED queryVars
  /\ UNCHANGED notAn

\* detect_cycles returns
DetectReturn ==
  /\ apc = "dfs" /\ frames = <<>> /\ root_idx > Len(forward_graph.order)
  /\ apc' = "done"
  /\ UNCHANGED <<forward_graph, reverse_graph, defined_variables, state,
                 frames, root_idx, cycles, vars_in_cycles>>
  /\ UNCHANGED queryVars
  /\ UNCHANGED notAn

\* the names a query is asked about: q is never a node
QueryNames == Names \cup { <<"q">> }

\* an answer that keeps the defined names among the referenced ones
AllReferenced(cache, fg, defined) ==
  IF cache # None THEN cache[1]
  ELSE UNION { fg.adj[v] : v \in DOMAIN fg.adj }

\* get_undefined_variables: the cached set, or else the union of the
\* values of _forward_graph less _defined_variables
get_undefined_variables(cache, fg, defined) ==
  IF cache # None THEN cache[1]
  ELSE (UNION { fg.adj[v] : v \in DOMAIN fg.adj }) \ defined

\* a call analyzer.get_undefined_variables(), which fills the cache
GetUndefinedVariables ==
  /\ apc = "built"
  /\ undefined_vars' =
       Some(get_undefined_variables(undefined_vars, forward_graph,
                                    defined_variables))
  /\ UNCHANGED <<forward_graph, reverse_graph, defined_variables, state,
                 frames, root_idx, cycles, vars_in_cycles, apc>>
  /\ UNCHANGED <<queried, queue, visited, levels>>
  /\ UNCHANGED notAn

\* get_all_dependencies(v) up to its while loop
GetAllDependencies(v) ==
  /\ apc = "built"
  /\ queried' = Some(v)
  /\ visited' = {}
  /\ levels' = <<>>
  /\ IF v \notin DOMAIN forward_graph.adj
     THEN queue' = <<>> /\ apc' = "deps_returned"
     ELSE /\ \E p \in Perms(get_dependencies(forward_graph, v)) : queue' = p
          /\ apc' = "deps"
  /\ UNCHANGED <<forward_graph, reverse_graph, defined_variables, state,
                 frames, root_idx, cycles, vars_in_cycles, undefined_vars>>
  /\ UNCHANGED notAn

\* one turn of "while queue" of get_all_dependencies
DependenciesLoop ==
  /\ apc = "deps" /\ queue # <<>>
  /\ \E current \in { Head(queue) } :
       IF current \notin visited
       THEN /\ visited' = visited \cup {current}
            /\ \E p \in Perms(get_dependencies(forward_graph, current)
                                \ (visited \cup {current})) :
                 queue' = Tail(queue) \o p
       ELSE /\ queue' = Tail(queue)
            /\ UNCHANGED visited
  /\ UNCHANGED <<forward_graph, reverse_graph, defined_variables, state,
                 frames, root_idx, cycles, vars_in_cycles, apc>>
  /\ UNCHANGED <<undefined_vars, queried, levels>>
  /\ UNCHANGED notAn

\* get_all_dependencies returns visited
DependenciesReturn ==
  /\ apc = "deps" /\ queue = <<>>
  /\ apc' = "deps_returned"
  /\ UNCHANGED <<forward_graph, reverse_graph, defined_variables, state,
                 frames, root_idx, cycles, vars_in_cycles>>
  /\ UNCHANGED queryVars
  /\ UNCHANGED notAn

\* an answer for a graph where nothing depends on anything
NoDependents(rg, v) == {}

\* self._reverse_graph.get(v, set())
get_dependents(rg, v) == IF v \in DOMAIN rg THEN rg[v] ELSE {}

\* get_all_dependents(v) up to its while loop
GetAllDependents(v) ==
  /\ apc = "built"
  /\ queried' = Some(v)
  /\ visited' = {}
  /\ levels' = <<>>
  /\ IF v \notin DOMAIN reverse_graph
     THEN queue' = <<>> /\ apc' = "dependents_returned"
     ELSE queue' = << <<v, 0>> >> /\ apc' = "dependents"
  /\ UNCHANGED <<forward_graph, reverse_graph, defined_variables, state,
                 frames, root_idx, cycles, vars_in_cycles, undefined_vars>>
  /\ UNCHANGED notAn

\* one turn of "while queue" of get_all_dependents: the pop and the loop
\* over the dependents of current, in one of its orders
DependentsLoop ==
  /\ apc = "dependents" /\ queue # <<>>
  /\ \E current \in { Head(queue)[1] }, level \in { Head(queue)[2] } :
     \E fresh \in { get_dependents(reverse_graph, current) \ visited } :
       /\ visited' = visited \cup fresh
       /\ levels' = levels @@ [dependent \in fresh |-> level + 1]
       /\ \E p \in Perms(fresh) :
            queue' = Tail(queue) \o [i \in 1..Len(p) |-> <<p[i], level + 1>>]
  /\ UNCHANGED <<forward_graph, reverse_graph, defined_variables, state,
                 frames, root_idx, cycles, vars_in_cycles, apc>>
  /\ UNCHANGED <<undefined_vars, queried>>
  /\ UNCHANGED notAn

\* get_all_dependents returns visited and levels
DependentsReturn ==
  /\ apc = "dependents" /\ queue = <<>>
  /\ apc' = "dependents_returned"
  /\ UNCHANGED <<forward_graph, reverse_graph, defined_variables, state,
                 frames, root_idx, cycles, vars_in_cycles>>
  /\ UNCHANGED queryVars
  /\ UNCHANGED notAn

AnNext ==
  \/ Analyze
  \/ DetectCycles
  \/ DfsRoot
  \/ DfsNeighbor
  \/ DfsReturn
  \/ DetectReturn
  \/ GetUndefinedVariables
  \/ \E v \in QueryNames : GetAllDependencies(v)
  \/ DependenciesLoop
  \/ DependenciesReturn
  \/ \E v \in QueryNames : GetAllDependents(v)
  \/ DependentsLoop
  \/ DependentsReturn

(***************************************************************************)
(* Specifications: each runs one part of the program and leaves the        *)
(* variables of the other parts idle.                                      *)
(***************************************************************************)
SpecHT == HtInit /\ [][HtNext]_vars

SpecParse == ParseInit /\ [][ParseNext]_vars

SpecExpr == ExprInit /\ [][ExprNext]_vars

Spec == ProgInit /\ [][Next]_vars

SpecBatch == ProgInit /\ [][BatchNext]_vars

SpecAnalyzer == AnInit /\ [][AnNext]_vars

\* the analyzer's caller is one thread: a walk or a query that was started
\* runs its next statement whenever there is one
Walks ==
  \/ DfsRoot \/ DfsNeighbor \/ DfsReturn \/ DetectReturn
  \/ DependenciesLoop \/ DependenciesReturn
  \/ DependentsLoop \/ DependentsReturn
SpecAnalyzerFair == AnInit /\ [][AnNext]_vars /\ WF_vars(Walks)

(***************************************************************************)
(* Claims about evaluate and optimize (SpecExpr)                           *)
(***************************************************************************)
Evaluated == ev # None
Optimized == opt1 # None
Reoptimized == opt2 # None

\* some division of the tree has a divisor that evaluates to zero: a "/"
\* whose right operand is 0, or a "//" whose right operand has T = 0
RECURSIVE HasZeroDivisor(_, _)
HasZeroDivisor(t, ht) ==
  /\ ~IsLeaf(t)
  /\ \/ getKey(t) = <<"/">> /\ evaluate(getRightTree(t), ht) = Ret(Zero)
     \/ /\ getKey(t) = <<"/","/">>
        /\ LET r == evaluate(getRightTree(t), ht)
           IN r.exc = "" /\ IsReal(r.val) /\ summative(r.val) = Ret(Zero)
     \/ HasZeroDivisor(getLeftTree(t), ht)
     \/ HasZeroDivisor(getRightTree(t), ht)

\* C1: evaluating a tree in which a divisor evaluates to zero returns None
\* (unresolved) and raises nothing.
C1_DivisionByZeroUnresolved ==
  (Evaluated /\ HasZeroDivisor(in_tree, hash_table)) => ev[1] = Ret(None)

\* the right child of the root, once optimized, is a numeric leaf equal to 0
RightOptimizesToZero(t) ==
  /\ ~IsLeaf(t)
  /\ LET r == optimize(getRightTree(t))
     IN /\ r.exc = ""
        /\ _is_leaf(r.tree)
        /\ _is_number(getKey(r.tree))
        /\ _get_number(getKey(r.tree)) = Zero

\* C8: a "/" whose optimized right child is the number 0 is never folded:
\* optimize returns a "/" node, not a leaf ((x/0) and (0/0) included).
C8_ZeroDivisionNotFolded ==
  (/\ Optimized
   /\ getKey(in_tree) = <<"/">>
   /\ RightOptimizesToZero(in_tree))
  => /\ opt1[1].exc = ""
     /\ ~_is_leaf(opt1[1].tree)
     /\ getKey(opt1[1].tree) = <<"/">>

\* C9: optimize is idempotent: applied to the tree it returned, it returns
\* a tree of the same shape and keys, and logs no rule.
C9_OptimizeIdempotent ==
  Reoptimized =>
    /\ opt2[1].exc = ""
    /\ opt2[1].tree = opt1[1].tree
    /\ opt2[1].log = <<>>

\* C9 witness: the first call applied a rule and left an operator node, and
\* the second call ran
C9_Witness ==
  /\ Reoptimized
  /\ Len(opt1[1].log) > 0
  /\ ~_is_leaf(opt1[1].tree)
  /\ ~_is_leaf(getLeftTree(in_tree))

LiveKeys == { k \in HtKeys : shadow[k] # None }

\* C3: the store is a map. While fewer keys are live than the table has
\* slots, get(k) is the value of the latest set(k, .) not followed by
\* delete(k), and None otherwise, colliding keys included.
C3_StoreIsMap ==
  Cardinality(LiveKeys) < TableSize =>
    \A k \in HtKeys : getitem(hash_table, k) = shadow[k]

\* C4: keys are unique. No key occupies two slots, and items() yields the
\* live keys, each once, and no deleted key.
C4_KeysUnique ==
  /\ \A i, j \in 1..TableSize :
       (/\ hash_table.keys[i] = hash_table.keys[j]
        /\ hash_table.keys[i] # NoneKey
        /\ hash_table.keys[i] # DELETE) => i = j
  /\ { it[2] : it \in items(hash_table) } = LiveKeys

(***************************************************************************)
(* The batch pass and the definitions in the store (Spec)                  *)
(***************************************************************************)
ProgNames == Names \cup { <<"q">> }

\* the variables the store answers for
Defined(ht) == { k \in ProgNames : getitem(ht, k) # None }

\* the alphabetic tokens of the current expression of v
References(ht, v) ==
  IF getitem(ht, v) = None THEN {}
  ELSE AlphaTokens(getitem(ht, v)[1].expression)

\* v -> the defined variables its current expression names
DefinedReferences(ht) ==
  [v \in ProgNames |-> References(ht, v) \cap Defined(ht)]

RECURSIVE ReachableFrom(_, _)
ReachableFrom(adj, S) ==
  LET next == S \cup UNION { adj[x] : x \in S \cap DOMAIN adj }
  IN IF next = S THEN S ELSE ReachableFrom(adj, next)

\* v reaches itself through one or more edges of adj
ReachesItself(adj, v) == v \in ReachableFrom(adj, adj[v])

\* v lies on a cycle of adj through another node
OnCycle(adj, v) ==
  \E w \in DOMAIN adj \ {v} :
    /\ w \in ReachableFrom(adj, adj[v])
    /\ v \in ReachableFrom(adj, adj[w])

AcyclicDefinitions(ht) ==
  \A v \in ProgNames : ~ReachesItself(DefinedReferences(ht), v)

\* the last operation was a batch pass
PassJustRan == last_pass # None /\ last_pass[1].at = prog_ops

\* C2: when the definitions hold a cycle through two or more variables, a
\* batch pass ends without an exception and leaves every variable on the
\* cycle without a value
C2_CyclicPassCompletes ==
  (PassJustRan /\ \E v \in ProgNames : OnCycle(DefinedReferences(hash_table), v))
    => /\ last_pass[1].exc = ""
       /\ \A v \in ProgNames :
            OnCycle(DefinedReferences(hash_table), v)
              => getitem(hash_table, v)[1].value = None

\* C10: when the definitions are acyclic, a variable the batch pass
\* evaluates comes after every defined variable its expression names,
\* unless that variable got its value when it was defined
C10_DependenciesEvaluatedFirst ==
  (PassJustRan /\ AcyclicDefinitions(hash_table))
    => \A a \in Defined(hash_table) :
         \A b \in References(hash_table, a) \cap Defined(hash_table) :
           InSequence(last_pass[1].evaluated, a)
             => \/ getitem(hash_table, b)[1].independent
                \/ /\ InSequence(last_pass[1].evaluated, b)
                   /\ Pos(last_pass[1].evaluated, b)
                        < Pos(last_pass[1].evaluated, a)

(***************************************************************************)
(* detect_cycles (SpecAnalyzer)                                            *)
(***************************************************************************)
\* C5: when detect_cycles returns, vars_in_cycles is the set of nodes of
\* the forward graph that reach themselves through one or more edges
C5_AllCycleMembersFound ==
  apc = "done"
    => vars_in_cycles = { n \in DOMAIN forward_graph.adj :
                            ReachesItself(forward_graph.adj, n) }

(***************************************************************************)
(* Definitions and the scheduler graph (Spec)                              *)
(***************************************************************************)
\* C11: every edge t -> k of the scheduler graph names an alphabetic token
\* t of the expression now stored for k
C11_EdgesAreCurrent ==
  \A e \in topological_graph.edges : e[1] \in References(hash_table, e[2])

Analyzed == apc # "off" /\ apc # "new"

\* C12: for every defined k the independent flag set by the define is true
\* exactly when the alphabetic tokens of its expression other than k are
\* none, which is when get_dependencies(k) is empty
C12_IndependentIffNoDependencies ==
  Analyzed =>
    \A k \in defined_variables :
      /\ getitem(hash_table, k)[1].independent
           <=> (References(hash_table, k) \ {k} = {})
      /\ getitem(hash_table, k)[1].independent
           <=> (get_dependencies(forward_graph, k) = {})

(***************************************************************************)
(* Claims about the tokenizer and the builder (SpecParse)                  *)
(***************************************************************************)
IsOperatorChar(c) == InOperations(<<c>>)

\* the number of maximal runs of adjacent operator characters of a text
OperatorRuns(s) ==
  Cardinality({ i \in 1..Len(s) :
                  /\ IsOperatorChar(s[i])
                  /\ (i = 1 \/ ~IsOperatorChar(s[i - 1])) })

\* the number of tokens made of operator characters
OperatorTokens(toks) ==
  Cardinality({ i \in 1..Len(toks) :
                  \A j \in 1..Len(toks[i]) : IsOperatorChar(toks[i][j]) })

\* C14: the tokens of a text hold exactly one operator token for every
\* maximal run of adjacent operator characters of the text
C14_OneTokenPerOperatorRun ==
  ppc # "off" /\ ppc # "start" => OperatorTokens(tokens) = OperatorRuns(exp)

\* the keys of the leaves of a tree, read left to right
RECURSIVE Leaves(_)
Leaves(t) ==
  IF t = None THEN <<>>
  ELSE IF IsLeaf(t) THEN <<t[1]>>
  ELSE Leaves(t[2]) \o Leaves(t[3])

\* the operand tokens of a token sequence, in their order
OperandTokens(toks) == SelectSeq(toks, IsOperandToken)

\* C15: the leaves of the tree built from accepted tokens, read left to
\* right, are the operand tokens of the sequence in their order
C15_LeavesAreOperands ==
  ppc = "built" =>
    /\ tree # BuildFailed
    /\ Leaves(tree) = OperandTokens(tokens)

\* C15 witness: a tree was built from nested groups with three operands or
\* more, and its leaves are those operands
C15_Witness ==
  /\ ppc = "built"
  /\ Len(OperandTokens(tokens)) >= 3
  /\ \E i \in 2..Len(tokens) : tokens[i] = LP
  /\ Leaves(tree) = OperandTokens(tokens)

\* the file was read by the operation that has just ended
FileJustRead == last_op # None /\ last_op[1].op = "file"

\* a line that is malformed or whose expression is rejected
BadLine(line) == FileLines[line].exc # "" \/ FileLines[line].skip

\* C22: after a file was read, every well-formed line that follows a
\* malformed or rejected line has its key defined in the store
C22_BadLineDoesNotAbort ==
  FileJustRead =>
    \A i \in DOMAIN last_op[1].lines, j \in DOMAIN last_op[1].lines :
      (i < j /\ BadLine(last_op[1].lines[i]) /\ ~BadLine(last_op[1].lines[j]))
        => getitem(hash_table, FileLines[last_op[1].lines[j]].key) # None

\* the names the expression of k names, directly or through the
\* expressions of the names it names
TransitiveReferences(ht, k) ==
  ReachableFrom([v \in ProgNames |-> References(ht, v)], References(ht, k))

\* C26: with every variable defined once and acyclic definitions, a batch
\* pass that has just completed leaves every defined variable with the value
\* of its expression over the stored values, and that value is None exactly
\* when the variable transitively names a name that is not defined
C26_BatchPassEvaluatesAll ==
  (PassJustRan /\ last_pass[1].exc = "" /\ AcyclicDefinitions(hash_table))
    => \A k \in Defined(hash_table) :
         /\ getitem(hash_table, k)[1].value
              = BuildAndEvaluate(getitem(hash_table, k)[1].expression,
                                 hash_table).val
         /\ (getitem(hash_table, k)[1].value = None)
              <=> (TransitiveReferences(hash_table, k)
                     \ Defined(hash_table) # {})

\* C26 witness: a pass completed over a chain of three definitions, the last
\* defined first, and gave the end of the chain the value 3
C26_Witness ==
  /\ PassJustRan /\ last_pass[1].exc = ""
  /\ Defined(hash_table) = Names
  /\ AcyclicDefinitions(hash_table)
  /\ Len(last_pass[1].evaluated) = 2
  /\ \E k \in Names : getitem(hash_table, k)[1].value = <<3, 1>>

\* choice 3 has just answered
SingleJustRan == last_op # None /\ last_op[1].op = "single"

\* C28: when every name a variable transitively names is defined and the
\* definitions are acyclic, choice 3 answers with a number for it, whether or
\* not a batch pass ran since the last definition
C28_SingleEvaluationIsCurrent ==
  (/\ SingleJustRan
   /\ AcyclicDefinitions(hash_table)
   /\ TransitiveReferences(hash_table, last_op[1].var) \subseteq Defined(hash_table))
    => last_op[1].exc = "" /\ last_op[1].val # None

(***************************************************************************)
(* Claims about the analyzer's graphs (SpecAnalyzer)                       *)
(***************************************************************************)
\* C16: the reverse graph is the transpose of the forward graph, both have
\* the same nodes, among them every defined name and every referenced name
\* (one that is not defined with no dependencies), and no name is among its
\* own dependencies
C16_ReverseIsTranspose ==
  Analyzed =>
    /\ DOMAIN reverse_graph = DOMAIN forward_graph.adj
    /\ \A a \in ProgNames, b \in ProgNames :
         (a \in DOMAIN forward_graph.adj /\ b \in forward_graph.adj[a])
           <=> (b \in DOMAIN reverse_graph /\ a \in reverse_graph[b])
    /\ Defined(hash_table) \subseteq DOMAIN forward_graph.adj
    /\ \A k \in Defined(hash_table) :
         \A r \in References(hash_table, k) \ {k} :
           /\ r \in DOMAIN forward_graph.adj
           /\ r \notin Defined(hash_table) => forward_graph.adj[r] = {}
    /\ \A a \in DOMAIN forward_graph.adj : a \notin forward_graph.adj[a]

\* C16 witness: the graphs were built from a store where a defined name
\* refers to itself and another refers to a name that is not defined
C16_Witness ==
  /\ Analyzed
  /\ \E k \in Defined(hash_table) : k \in References(hash_table, k)
  /\ \E u \in DOMAIN reverse_graph :
       u \notin Defined(hash_table) /\ reverse_graph[u] # {}

\* C17: the answer of get_undefined_variables is the set of the names that
\* the expression of some defined variable refers to and that are not
\* defined themselves
C17_UndefinedAreReferencedNotDefined ==
  undefined_vars # None =>
    undefined_vars[1]
      = (UNION { References(hash_table, k) : k \in Defined(hash_table) })
          \ Defined(hash_table)

\* C17 witness: the answer was given for a store that refers to a name never
\* defined and also to a defined one
C17_Witness ==
  /\ undefined_vars # None
  /\ undefined_vars[1] # {}
  /\ \E k \in Defined(hash_table) :
       (References(hash_table, k) \ {k}) \cap Defined(hash_table) # {}

(***************************************************************************)
(* Claims about evaluate on unresolved variables (SpecExpr)                *)
(***************************************************************************)
\* the keys of the variable leaves of a tree
RECURSIVE VariableLeaves(_)
VariableLeaves(t) ==
  IF t = None THEN {}
  ELSE IF IsLeaf(t) THEN (IF IsAlpha(t[1]) THEN {t[1]} ELSE {})
  ELSE VariableLeaves(t[2]) \cup VariableLeaves(t[3])

\* the variable is absent from the store, or stored without a value
Unresolved(ht, v) ==
  getitem(ht, v) = None \/ getitem(ht, v)[1].value = None

\* C18: when a variable leaf of the tree is absent from the store or has no
\* value, and no division by zero occurs, evaluate raises nothing and
\* returns None
C18_MissingVariableGivesNone ==
  (/\ Evaluated
   /\ \E v \in VariableLeaves(in_tree) : Unresolved(hash_table, v)
   /\ ev[1].exc # "ZeroDivisionError")
    => ev[1] = Ret(None)

(***************************************************************************)
(* Claims about detect_cycles and the queries (SpecAnalyzer)               *)
(***************************************************************************)
\* the simple cycles of a graph, each written once, from its first name in
\* the order of NameSeq
SimpleCycles(adj) ==
  { p \in UNION { Perms(S) : S \in SUBSET (DOMAIN adj) \ {{}} } :
      /\ \A i \in 2..Len(p) : Pos(NameSeq, p[1]) < Pos(NameSeq, p[i])
      /\ \A i \in 1..Len(p) :
           p[(i % Len(p)) + 1] \in adj[p[i]] }

Members(p) == { p[i] : i \in 1..Len(p) }

\* C19: when the forward graph has exactly one simple cycle, detect_cycles
\* returns one cycle path, whose members are the variables on that cycle,
\* and the same set as the variables in cycles
C19_SingleCycleReportedOnce ==
  (apc = "done" /\ Cardinality(SimpleCycles(forward_graph.adj)) = 1) =>
    \A c \in SimpleCycles(forward_graph.adj) :
      /\ Len(cycles) = 1
      /\ { cycles[1][i] : i \in 1..(Len(cycles[1]) - 1) } = Members(c)
      /\ cycles[1][Len(cycles[1])] = cycles[1][1]
      /\ vars_in_cycles = Members(c)

\* C19 witness: detect_cycles has returned on a graph whose one simple
\* cycle has three variables
C19_Witness ==
  /\ apc = "done"
  /\ Cardinality(SimpleCycles(forward_graph.adj)) = 1
  /\ \E c \in SimpleCycles(forward_graph.adj) : Len(c) = 3
  /\ Len(cycles) = 1

\* a step of the walk of detect_cycles moves a colour only from UNVISITED to
\* VISITING or from VISITING to VISITED, and opens a call only on an
\* UNVISITED node
ColourStep ==
  (apc = "dfs" /\ apc' # "off") =>
    /\ \A node \in DOMAIN state :
         \/ state'[node] = state[node]
         \/ state[node] = UNVISITED /\ state'[node] = VISITING
         \/ state[node] = VISITING /\ state'[node] = VISITED
    /\ Len(frames') > Len(frames)
         => state[frames'[Len(frames')].node] = UNVISITED

\* C20: detect_cycles, get_all_dependencies and get_all_dependents, once
\* started, return, and in detect_cycles the colour of a node only moves
\* UNVISITED -> VISITING -> VISITED and no coloured node is entered again
C20_WalksTerminate ==
  /\ [][ColourStep]_vars
  /\ (apc = "dfs") ~> (apc = "done")
  /\ (apc = "deps") ~> (apc = "deps_returned")
  /\ (apc = "dependents") ~> (apc = "dependents_returned")

\* C20 witness: detect_cycles has returned on a graph with a cycle, every
\* node VISITED
C20_Witness ==
  /\ apc = "done"
  /\ cycles # <<>>
  /\ \A node \in DOMAIN state : state[node] = VISITED

(***************************************************************************)
(* Claims about the custom operators (SpecExpr)                            *)
(***************************************************************************)
\* the triangular function a * (a + 1) / 2, not rounded
T(a) == FDiv(FMul(a, FAdd(a, One)), <<2, 1>>)

\* the root applies a custom operator to two operands with real values
CustomOnValues ==
  /\ Evaluated
  /\ ~IsLeaf(in_tree)
  /\ in_tree[1] \in { <<"+","+">>, <<"/","/">> }
  /\ evaluate(in_tree[2], hash_table).exc = ""
  /\ evaluate(in_tree[3], hash_table).exc = ""
  /\ IsReal(evaluate(in_tree[2], hash_table).val)
  /\ IsReal(evaluate(in_tree[3], hash_table).val)

\* C21: (a ++ b) evaluates to T(a) + T(b), and (a // b) to T(a) / T(b) when
\* T(b) is not zero, with T not rounded
C21_CustomOperatorsExact ==
  CustomOnValues =>
    LET a == evaluate(in_tree[2], hash_table).val
        b == evaluate(in_tree[3], hash_table).val
    IN IF in_tree[1] = <<"+","+">>
       THEN ev[1] = Ret(FAdd(T(a), T(b)))
       ELSE T(b) # Zero => ev[1] = Ret(FDiv(T(a), T(b)))

(***************************************************************************)
(* Claims about the optimizer (SpecExpr)                                   *)
(***************************************************************************)
\* some node of the tree is an object of the tree given to optimize
RECURSIVE HasInputNode(_)
HasInputNode(t) ==
  /\ t # None
  /\ (Len(t) = 4 \/ HasInputNode(t[2]) \/ HasInputNode(t[3]))

\* C23: the tree optimize returns has no node object of its input, and the
\* call leaves the input with the shape and keys it had
C23_OptimizeCopies ==
  /\ [](Optimized /\ opt1[1].exc = "" => ~HasInputNode(opt1[1].tree))
  /\ [][opt1 = None /\ opt1' # None => in_tree' = in_tree]_vars

\* C23 witness: optimize returned, by an identity rule, what it made of one
\* operand of an input with two operators, and nothing of the input is in it
C23_Witness ==
  /\ Optimized /\ opt1[1].exc = ""
  /\ ~IsLeaf(in_tree) /\ ~IsLeaf(in_tree[2])
  /\ opt1[1].log = <<"Identity">>
  /\ ~IsLeaf(opt1[1].tree)
  /\ ~HasInputNode(opt1[1].tree)

\* the identity patterns (v+0), (0+v), (v-0), (v*1), (1*v), (v/1), (v**1):
\* the key of the variable leaf v of the tree, if it is one of them
IdentityVariable(t) ==
  IF IsLeaf(t) \/ t[2] = None \/ t[3] = None THEN None
  ELSE IF ~IsLeaf(t[2]) \/ ~IsLeaf(t[3]) THEN None
  ELSE IF IsAlpha(t[2][1]) /\ t[3][1] = <<"0">>
            /\ t[1] \in { <<"+">>, <<"-">> } THEN Some(t[2][1])
  ELSE IF IsAlpha(t[2][1]) /\ t[3][1] = <<"1">>
            /\ t[1] \in { <<"*">>, <<"/">>, <<"*","*">> } THEN Some(t[2][1])
  ELSE IF IsAlpha(t[3][1]) /\ t[2][1] = <<"0">> /\ t[1] = <<"+">>
       THEN Some(t[3][1])
  ELSE IF IsAlpha(t[3][1]) /\ t[2][1] = <<"1">> /\ t[1] = <<"*">>
       THEN Some(t[3][1])
  ELSE None

\* two numeral leaves under +, - or *
FoldablePair(t) ==
  /\ ~IsLeaf(t) /\ t[2] # None /\ t[3] # None
  /\ IsLeaf(t[2]) /\ IsLeaf(t[3])
  /\ IsNumericLiteral(t[2][1]) /\ IsNumericLiteral(t[3][1])
  /\ t[1] \in { <<"+">>, <<"-">>, <<"*">> }

\* C24: optimize turns an identity pattern on a variable leaf into that leaf
\* with one log entry, folds two numeral leaves under +, - or * into one
\* numeral leaf holding the result with one constant-folding entry, and
\* starts every call with an empty log
C24_IdentityAndFolding ==
  /\ (Optimized /\ IdentityVariable(in_tree) # None)
       => /\ opt1[1].exc = ""
          /\ opt1[1].tree = BinaryTree(IdentityVariable(in_tree)[1])
          /\ Len(opt1[1].log) = 1
  /\ (Optimized /\ FoldablePair(in_tree))
       => /\ opt1[1].exc = ""
          /\ IsLeaf(opt1[1].tree)
          /\ FloatParses(opt1[1].tree[1])
          /\ FloatOf(opt1[1].tree[1])
               = ApplyOperator(in_tree[1], FloatOf(in_tree[2][1]),
                               FloatOf(in_tree[3][1])).val
          /\ opt1[1].log = <<"Constant folding">>
  /\ (Reoptimized /\ opt2[1].exc = "")
       => opt2[1].log = <<>>

(***************************************************************************)
(* Claims about get_all_dependents (SpecAnalyzer)                          *)
(***************************************************************************)
\* the nodes that S reaches in exactly k dependency edges
RECURSIVE StepsFrom(_, _, _)
StepsFrom(adj, S, k) ==
  IF k = 0 THEN S
  ELSE StepsFrom(adj, UNION { adj[x] : x \in S \cap DOMAIN adj }, k - 1)

\* the lengths of the paths of one edge or more from n to v
PathLengths(adj, n, v) ==
  { k \in 1..Cardinality(DOMAIN adj) : v \in StepsFrom(adj, {n}, k) }

Least(K) == CHOOSE k \in K : \A j \in K : k <= j

\* C25: get_all_dependents(v) returns the names that reach v through one
\* dependency edge or more, each with the length of its shortest path to v
C25_DependentsWithShortestLevels ==
  apc = "dependents_returned" =>
    /\ visited = { n \in DOMAIN forward_graph.adj :
                     PathLengths(forward_graph.adj, n, queried[1]) # {} }
    /\ DOMAIN levels = visited
    /\ \A n \in visited :
         levels[n] = Least(PathLengths(forward_graph.adj, n, queried[1]))

\* C25 witness: the answer holds the name asked about, which lies on a cycle,
\* and a dependent two edges away
C25_Witness ==
  /\ apc = "dependents_returned"
  /\ queried[1] \in visited
  /\ \E n \in visited : n # queried[1] /\ levels[n] = 2
  /\ \E n \in visited : levels[n] = 1


\* a path that closes on its first node, follows the edges of adj and repeats
\* no other node
RealCycle(adj, c) ==
  /\ Len(c) >= 2
  /\ c[1] = c[Len(c)]
  /\ \A i \in 1..(Len(c) - 1) : c[i] \in DOMAIN adj /\ c[i + 1] \in adj[c[i]]
  /\ \A i, j \in 1..(Len(c) - 1) : c[i] = c[j] => i = j

\* the nodes of the call of dfs that is running
CurrentPath ==
  IF frames = <<>> THEN {}
  ELSE { frames[Len(frames)].path[i] : i \in DOMAIN frames[Len(frames)].path }

\* C27: every cycle detect_cycles reports is a real cycle of the forward
\* graph, and during the search the VISITING nodes are exactly the nodes of
\* the current path, so that a VISITING neighbour is always found on the path
C27_ReportedCyclesAreReal ==
  (apc = "dfs" \/ apc = "done") =>
    /\ \A i \in DOMAIN cycles : RealCycle(forward_graph.adj, cycles[i])
    /\ { node \in DOMAIN state : state[node] = VISITING } = CurrentPath
    /\ frames # <<>> =>
         \A neighbor \in frames[Len(frames)].todo :
           (neighbor \in DOMAIN state /\ state[neighbor] = VISITING)
             => InSequence(frames[Len(frames)].path, neighbor)

\* C27 witness: inside a call two levels down, a cycle through three nodes
\* has just been reported
C27_Witness ==
  /\ apc = "dfs" /\ Len(frames) = 3
  /\ Len(cycles) = 1 /\ Len(cycles[1]) = 4
  /\ RealCycle(forward_graph.adj, cycles[1])


(***************************************************************************)
(* Claims about the meaning of optimized trees (SpecExpr)                  *)
(***************************************************************************)
\* evaluate gives a number for t over the store st
NumericOver(t, st) ==
  /\ evaluate(t, st).exc = ""
  /\ evaluate(t, st).val # None
  /\ evaluate(t, st).val # NotExact

IsCustom(op) == op = <<"+","+">> \/ op = <<"/","/">>

\* C29: when evaluate gives a number for a tree over a store, optimize
\* returns a tree for which evaluate gives the same number over that store,
\* and a node with the operator ++ or // comes back with its operator
C29_OptimizePreservesMeaning ==
  Optimized =>
    /\ \A st \in Stores :
         NumericOver(in_tree, st)
           => /\ opt1[1].exc = ""
              /\ evaluate(opt1[1].tree, st) = evaluate(in_tree, st)
    /\ (opt1[1].exc = "" /\ IsCustom(in_tree[1]))
         => opt1[1].tree[1] = in_tree[1]


(***************************************************************************)
(* Claims about the characters of the tokens (SpecParse)                   *)
(***************************************************************************)
\* the characters the tokenizer does not skip
IsTokenChar(c) ==
  c = "(" \/ c = ")" \/ InOperations(<<c>>) \/ IsDigitChar(c) \/ c = "."
    \/ IsAlphaChar(c)

Kept(s) == SelectSeq(s, IsTokenChar)

\* C30: the tokens, put end to end, are the text without its skipped
\* characters, in the order of the text, and the skipped characters do not
\* separate tokens: the text without them gives the same tokens
C30_TokensKeepTheText ==
  ppc # "start" =>
    /\ Flatten(tokens) = Kept(exp)
    /\ tokens = tokenizer(Kept(exp))

\* C30 witness: two digits with a blank between them became one token
C30_Witness ==
  /\ ppc # "start"
  /\ exp = <<"1", " ", "1">>
  /\ tokens = << <<"1", "1">> >>

=============================================================================
